---- MODULE Spec2Model ----
(***************************************************************************)
(* Data preparation of the reading-comprehension pipeline                  *)
(* (src/preprocess.py): the Sentence Sampler (_sample_article), the Gold   *)
(* Span Locator (_find_golden_span), the pool-based batch functions        *)
(* (parallel_sample_article, parallel_find_gold_span, parallel_cut) and    *)
(* preprocess_dataset with clean_text and clean_token; of the model        *)
(* (src/rc_model.py), RCModel.train and RCModel.find_best_answer.          *)
(*                                                                         *)
(* Conventions.                                                            *)
(*  - A token is a sequence of characters; a text is a sequence of         *)
(*    characters; ''.join(tokens) is Join(tokens).                         *)
(*  - The sentence boundary marker (the ideographic full stop of the       *)
(*    source) is written "." here.                                         *)
(*  - Python lists are 0-based, TLA+ sequences 1-based: a position p of    *)
(*    the source is p + 1 here; the spans the Locator returns are kept     *)
(*    0-based, as the source returns them.                                 *)
(*  - Scores are exact rationals <<num, den>> in lowest terms (den > 0);   *)
(*    the source computes them in floating point.                          *)
(*  - article_flags carries, for each token, its position in the input     *)
(*    article, so that a flag identifies the token it came with.           *)
(***************************************************************************)
EXTENDS Integers, Sequences, FiniteSets, TLC

(***************************************************************************)
(* Bounds of the model.                                                    *)
(***************************************************************************)
MaxSegs == 5
MaxBudget == 10

(***************************************************************************)
(* Program constants.                                                      *)
(***************************************************************************)
TopSentences == 10

Marker == "."

(***************************************************************************)
(* Sequences, texts, rationals.                                            *)
(***************************************************************************)
Max2(a, b) == IF a >= b THEN a ELSE b
Min2(a, b) == IF a <= b THEN a ELSE b

\* lst[:n] of the source, n >= 0
Take(lst, n) == SubSeq(lst, 1, Min2(n, Len(lst)))

RECURSIVE Join(_)
Join(tokens) ==
    IF tokens = <<>> THEN <<>> ELSE Head(tokens) \o Join(Tail(tokens))

RECURSIVE Flatten(_)
Flatten(lists) ==
    IF lists = <<>> THEN <<>> ELSE Head(lists) \o Flatten(Tail(lists))

CharSet(text) == {text[k] : k \in DOMAIN text}

RECURSIVE GCD(_, _)
GCD(a, b) == IF b = 0 THEN a ELSE GCD(b, a % b)

Rat(n, d) == IF n = 0 THEN <<0, 1>> ELSE <<n \div GCD(n, d), d \div GCD(n, d)>>
RZero == <<0, 1>>
ROne == <<1, 1>>
RLess(a, b) == a[1] * b[2] < b[1] * a[2]
RMax(a, b) == IF RLess(a, b) THEN b ELSE a
RScale(tenths, a) == Rat(tenths * a[1], 10 * a[2])

(***************************************************************************)
(* The similarity scorer (utils.rouge.RougeL): one add_inst(cand, ref)     *)
(* appends the weighted F-measure of the longest common subsequence to     *)
(* inst_scores, its recall to r_scores and its precision to p_scores.      *)
(***************************************************************************)
\* one row of the table of lengths: cur[j + 1] is the length for the prefix
\* of x that ends in ch and the first j characters of y
RECURSIVE LCSRow(_, _, _, _)
LCSRow(ch, y, prev, cur) ==
    LET j == Len(cur)
    IN  IF j > Len(y) THEN cur
        ELSE LCSRow(ch, y, prev,
                 Append(cur, IF ch = y[j] THEN prev[j] + 1
                             ELSE Max2(prev[j + 1], cur[j])))

RECURSIVE LCSTable(_, _, _, _)
LCSTable(x, y, k, prev) ==
    IF k > Len(x) THEN prev[Len(y) + 1]
    ELSE LET row_k == LCSRow(x[k], y, prev, <<0>>)
         IN  IF row_k = prev THEN LCSTable(x, y, k + 1, prev)
             ELSE LCSTable(x, y, k + 1, row_k)

LCS(x, y) == LCSTable(x, y, 1, [ j \in 1..(Len(y) + 1) |-> 0 ])

\* gamma = 1.2:  (1 + gamma^2) P R / (R + gamma^2 P)  =  61 l / (25 c + 36 n)
RougeL_scores(l, c, n) ==
    [ inst |-> IF l = 0 THEN RZero ELSE Rat(61 * l, 25 * c + 36 * n),
      r    |-> IF l = 0 THEN RZero ELSE Rat(l, n),
      p    |-> IF l = 0 THEN RZero ELSE Rat(l, c) ]

RougeL_add_inst(cand, ref) == RougeL_scores(LCS(cand, ref), Len(cand), Len(ref))

(***************************************************************************)
(* np.argsort followed by reversed(): the positions by descending score.   *)
(* np.argsort sorts an array of at most 16 elements by insertion, which    *)
(* keeps equal scores in ascending position; reversed() then lists equal   *)
(* scores from the highest position down.                                  *)
(***************************************************************************)
RankedBefore(s, p, q) == RLess(s[q], s[p]) \/ (s[p] = s[q] /\ p > q)

ReversedArgSort(s) ==
    [ k \in 1..Len(s) |->
        CHOOSE p \in 1..Len(s) :
            Cardinality({q \in 1..Len(s) : RankedBefore(s, q, p)}) = k - 1 ]


(***************************************************************************)
(* State.  row is the pandas row a transform works on (mutated in place),  *)
(* input the row as it was passed in; the rest are the locals of           *)
(* _sample_article, named as in the source (rank_idx is the position of    *)
(* "for pos in rank" in rank).                                             *)
(***************************************************************************)
VARIABLES pc, row, input, max_token_len,
          sentences, sentences_f, scores, s_rank, arg_sorted, i,
          rank, flag, cur_len, rank_idx,
          star_spans, end_spans, inst_scores, q_r_scores, rl_q_idx,
          stage, cut_word_method, n_cpu, article_df, qa_df, sample_df,
          split_dfs, task, task_result, finish_order, pool_results, res,
          step, col, adf, qadf, labeled, cfg, trace, raw,
          epochs, epoch, evaluate, dev_set, train_batches, bitx,
          max_rouge_l, bleu_rouge, saved, error,
          sample, prob_matrix, ans_inter_prob, passage_len, matrix,
          pred_start_origin, pred_end_origin, pred_start_gt_cut,
          pred_end_gt_cut, pred_start_cut, pred_end_cut, best_answer

samplerLocals == <<sentences, sentences_f, scores, s_rank, arg_sorted, i,
                   rank, flag, cur_len, rank_idx>>

\* the locals of _find_golden_span: inst_scores is rl.inst_scores and
\* q_r_scores is rl_q.r_scores; the loop variable i is shared
locatorLocals == <<star_spans, end_spans, inst_scores, q_r_scores, rl_q_idx>>

\* the state of a run of preprocess_dataset: step is the statement it is at,
\* adf and qadf its two tables, labeled whether qadf has the column answer,
\* cfg the two budgets of the configuration, trace the stages begun so far;
\* col is the column a parallel_cut call segments; raw is what came in: the
\* json records of the run, or the row as it was before clean_token
\* the state of RCModel.train: epochs, evaluate and dev_set (whether
\* data.dev_set is not None) as passed in, train_batches the number of
\* batches of an epoch, bitx the batch _train_epoch is at, bleu_rouge the
\* last result of evaluate(), saved the prefixes self.save was called with,
\* error the exception that ended the run
trainVars == <<epochs, epoch, evaluate, dev_set, train_batches, bitx,
               max_rouge_l, bleu_rouge, saved, error>>

\* the state of RCModel.find_best_answer: its arguments and locals, named
\* as in the source; prob_matrix and matrix are functions of (row, column),
\* counted from 0; best_answer is the triple returned
findVars == <<sample, prob_matrix, ans_inter_prob, passage_len, matrix,
              pred_start_origin, pred_end_origin, pred_start_gt_cut,
              pred_end_gt_cut, pred_start_cut, pred_end_cut, best_answer>>

rcVars == <<trainVars, findVars>>

pipeVars == <<step, col, adf, qadf, labeled, cfg, trace, raw, rcVars>>

\* the state of a parallel_* call: stage is the function called
\* ("sample", "span" or "cut"), sample_df the table it splits (df in
\* parallel_cut), task[k] the progress of the pool on split_dfs[k],
\* task_result[k] what its worker sent back, finish_order the partitions in
\* the order their workers finished
batchVars == <<stage, cut_word_method, n_cpu, article_df, qa_df, sample_df,
               split_dfs, task, task_result, finish_order, pool_results, res,
               pipeVars>>

rowVars == <<row, input, samplerLocals, locatorLocals>>

vars == <<pc, row, input, max_token_len, samplerLocals, locatorLocals,
          batchVars>>

\* line 242 with "<" for "<=": an article of exactly the budget is sampled
WithinBudgetStrict(tokens, budget) == Len(tokens) < budget

\* line 242: an article within the budget is returned as it is
WithinBudget(tokens, budget) == Len(tokens) <= budget

(***************************************************************************)
(* _sample_article, lines 244-263: the split into sentences.               *)
(***************************************************************************)
\* "token in '。'" is a substring test: the marker itself, or the empty token
IsBoundary(token) == token = <<Marker>> \/ token = <<>>

\* lines 255-261: a segment of at least 2 tokens becomes a sentence and is
\* scored against the question; a precision of 1.0 forces the recall to 1.0
KeepSegment(cur_s) == Len(cur_s) >= 2

ForcedRecall(inst) == IF inst.p = ROne THEN ROne ELSE inst.r

SentenceScore(cur_s, question) ==
    ForcedRecall(RougeL_add_inst(Join(cur_s), question))

AddSentence(acc, cur_s, cur_s_f, question) ==
    IF KeepSegment(cur_s)
    THEN [ sentences   |-> Append(acc.sentences, cur_s),
           sentences_f |-> Append(acc.sentences_f, cur_s_f),
           r_scores    |-> Append(acc.r_scores, SentenceScore(cur_s, question)) ]
    ELSE acc

\* lines 250-263, from the token at idx on
RECURSIVE SplitLoop(_, _, _, _, _, _, _)
SplitLoop(idx, tokens, flags, question, cur_s, cur_s_f, acc) ==
    IF idx > Len(tokens) \/ idx > Len(flags) THEN acc
    ELSE IF IsBoundary(tokens[idx]) \/ idx = Len(tokens)
    THEN SplitLoop(idx + 1, tokens, flags, question, <<>>, <<>>,
                   AddSentence(acc, Append(cur_s, tokens[idx]),
                               Append(cur_s_f, flags[idx]), question))
    ELSE SplitLoop(idx + 1, tokens, flags, question,
                   Append(cur_s, tokens[idx]), Append(cur_s_f, flags[idx]), acc)

SplitSentences(tokens, flags, question_tokens) ==
    SplitLoop(1, tokens, flags, Join(question_tokens), <<>>, <<>>,
              [sentences |-> <<>>, sentences_f |-> <<>>, r_scores |-> <<>>])

\* line 265
HasDelimiter(tokens) == Marker \in CharSet(Join(tokens))

(***************************************************************************)
(* lines 274-286: one pass of the spreading loop.                          *)
(***************************************************************************)
block_multipliers == <<5, 9, 10, 10, 9, 5, 4>>

\* line 279: pos in [0, 1, len - 1, len - 2], in 1-based positions
ForceKept(pos, n) == pos \in {1, 2, n, n - 1}

\* the block written over s_rank without the element-wise maximum
SpreadBlockOverwrite(rk, pos, score) ==
    [ j \in 1..Len(rk) |->
        IF pos - 2 <= j /\ j <= pos + 4
        THEN RScale(block_multipliers[j - pos + 3], score)
        ELSE rk[j] ]

\* lines 281-286: s_rank[pos - 2 : pos + 5] = max(block_scores, block)
SpreadBlock(rk, pos, score) ==
    [ j \in 1..Len(rk) |->
        IF pos - 2 <= j /\ j <= pos + 4
        THEN RMax(RScale(block_multipliers[j - pos + 3], score), rk[j])
        ELSE rk[j] ]

SpreadAt(rk, sc, pos) ==
    IF ForceKept(pos, Len(sc)) \/ sc[pos] = RZero
    THEN rk
    ELSE SpreadBlock(rk, pos, sc[pos])

\* lines 277-286, pass iter of the loop
SpreadOnce(rk, sc, sorted, iter) == SpreadAt(rk, sc, sorted[iter + 1])

(***************************************************************************)
(* lines 289-291: the first two and the last two sentences are kept.       *)
(***************************************************************************)
InitialFlag(n) == [ j \in 1..n |-> IF j \in {1, 2, n, n - 1} THEN 1 ELSE 0 ]

InitialLen(sents) ==
    LET n == Len(sents)
    IN  Len(sents[1]) + Len(sents[2]) + Len(sents[n]) + Len(sents[n - 1])

\* lines 295-297: a sentence with a positive rank is kept and counted
SelectOnce(sel, sents, rk, pos) ==
    IF RLess(RZero, rk[pos])
    THEN [ flag    |-> [sel.flag EXCEPT ![pos] = 1],
           cur_len |-> sel.cur_len + Len(sents[pos]) ]
    ELSE sel

(***************************************************************************)
(* lines 301-307: the kept sentences in document order, cut to the budget. *)
(***************************************************************************)
\* the kept sentences taken in the order of rank instead
RECURSIVE CollectInRankOrder(_, _, _)
CollectInRankOrder(lists, fl, j) ==
    IF j > Len(rank) THEN <<>>
    ELSE (IF fl[rank[j]] # 0 THEN lists[rank[j]] ELSE <<>>)
             \o CollectInRankOrder(lists, fl, j + 1)

RECURSIVE Collect(_, _, _)
Collect(lists, fl, j) ==
    IF j > Len(fl) THEN <<>>
    ELSE (IF fl[j] # 0 THEN lists[j] ELSE <<>>) \o Collect(lists, fl, j + 1)

\* lines 306-307 without the cut to the budget
AssembleUncut(lists, fl, budget) == Collect(lists, fl, 1)

\* lines 306-307 cutting one token past the budget
AssembleOneOver(lists, fl, budget) == Take(Collect(lists, fl, 1), budget + 1)

Assemble(lists, fl, budget) == Take(Collect(lists, fl, 1), budget)

(***************************************************************************)
(* Inputs of the Sampler.  An article is a run of segments, each ending in *)
(* the marker, and a tail without one; the flags are the positions.        *)
(***************************************************************************)
SegmentPool ==
    { << <<"a">>, <<Marker>> >>,
      << <<"a", "b">>, <<"c">>, <<Marker>> >>,
      << <<Marker>> >> }

TailPool == { <<>>, << <<"c">> >>, << <<"a">>, <<"b">> >> }

QuestionPool == { <<>>, << <<"c">> >>, << <<"a">>, <<Marker>>, <<"b">> >> }

Articles ==
    { Flatten(segs) \o tail :
        segs \in UNION { [1..k -> SegmentPool] : k \in 0..MaxSegs },
        tail \in TailPool }

Positions(tokens) == [ k \in 1..Len(tokens) |-> k ]

\* RCModel.train is not running
TrainIdle ==
    /\ epochs = 0 /\ epoch = 0 /\ evaluate = FALSE /\ dev_set = FALSE
    /\ train_batches = 0 /\ bitx = 0 /\ max_rouge_l = 0
    /\ bleu_rouge = <<>> /\ saved = <<>> /\ error = "none"

\* RCModel.find_best_answer is not running
FindIdle ==
    /\ sample = <<>> /\ prob_matrix = <<>> /\ ans_inter_prob = <<>>
    /\ passage_len = 0 /\ matrix = <<>>
    /\ pred_start_origin = 0 /\ pred_end_origin = 0
    /\ pred_start_gt_cut = 0 /\ pred_end_gt_cut = 0
    /\ pred_start_cut = 0 /\ pred_end_cut = 0 /\ best_answer = <<>>

\* no method of RCModel is running
RcIdle == TrainIdle /\ FindIdle

\* preprocess_dataset is not running
PreprocessIdle ==
    /\ step = "none" /\ adf = <<>> /\ qadf = <<>> /\ labeled = FALSE
    /\ cfg = [ article_sample_len |-> 0, article_sample_len_test |-> 0 ]
    /\ trace = <<>> /\ raw = <<>>

PipelineIdle == RcIdle /\ PreprocessIdle

\* no parallel_* call is under way
PoolIdle ==
    /\ col = "none"
    /\ stage = "none" /\ cut_word_method = "none" /\ n_cpu = 0
    /\ article_df = <<>> /\ qa_df = <<>> /\ sample_df = <<>>
    /\ split_dfs = <<>> /\ task = <<>> /\ task_result = <<>>
    /\ finish_order = <<>> /\ pool_results = <<>> /\ res = <<>>

BatchIdle == PipelineIdle /\ PoolIdle

\* the article of two sentences, p q . and w x y z . , asked about w x
SamplerScenarioRows ==
    { [ article_id      |-> 1,
        article_tokens  |-> << <<"p">>, <<"q">>, <<Marker>>, <<"w">>, <<"x">>,
                               <<"y">>, <<"z">>, <<Marker>> >>,
        article_flags   |-> <<1, 2, 3, 4, 5, 6, 7, 8>>,
        question_tokens |-> << <<"w">>, <<"x">> >> ] }

\* twelve sentences asked about c d: ten of score 1, the third of score
\* 1/2 and the fourth of score 0, so the third is not among the first ten
SpreadScenarioRows ==
    LET full == << <<"c", "d">>, <<Marker>> >>
        art  == full \o full \o << <<"c">>, <<Marker>>, <<"x">>, <<Marker>> >>
                  \o full \o full \o full \o full
                  \o full \o full \o full \o full
    IN  { [ article_id      |-> 1,
            article_tokens  |-> art,
            article_flags   |-> Positions(art),
            question_tokens |-> << <<"c">>, <<"d">> >> ] }

SamplerRows ==
    { [ article_id      |-> 1,
        article_tokens  |-> a,
        article_flags   |-> Positions(a),
        question_tokens |-> q ] : a \in Articles, q \in QuestionPool }
        \cup SamplerScenarioRows \cup SpreadScenarioRows

SamplerInit ==
    /\ row \in SamplerRows
    /\ input = row
    /\ max_token_len \in 0..MaxBudget
    /\ pc = "sample"
    /\ sentences = <<>> /\ sentences_f = <<>> /\ scores = <<>>
    /\ s_rank = <<>> /\ arg_sorted = <<>> /\ i = 0
    /\ rank = <<>> /\ flag = <<>> /\ cur_len = 0 /\ rank_idx = 0
    /\ star_spans = <<>> /\ end_spans = <<>> /\ inst_scores = <<>>
    /\ q_r_scores = <<>> /\ rl_q_idx = <<>>
    /\ BatchIdle

(***************************************************************************)
(* _sample_article, one action per block of the function.                  *)
(***************************************************************************)
\* lines 242-243
SampleUnchanged ==
    /\ pc = "sample"
    /\ WithinBudget(row.article_tokens, max_token_len)
    /\ pc' = "sampled"
    /\ UNCHANGED <<row, input, max_token_len, samplerLocals, locatorLocals,
                   batchVars>>

\* lines 244-263
SampleSplit ==
    /\ pc = "sample"
    /\ ~WithinBudget(row.article_tokens, max_token_len)
    /\ \E split \in { SplitSentences(row.article_tokens, row.article_flags,
                                     row.question_tokens) } :
           /\ sentences' = split.sentences
           /\ sentences_f' = split.sentences_f
           /\ scores' = split.r_scores
    /\ pc' = "split"
    /\ UNCHANGED <<row, input, max_token_len, s_rank, arg_sorted, i,
                   rank, flag, cur_len, rank_idx,
                   locatorLocals, batchVars>>

\* lines 265-268: sentences[0] of an empty list raises IndexError
SampleNoDelimiter ==
    /\ pc = "split"
    /\ ~HasDelimiter(row.article_tokens)
    /\ IF sentences = <<>>
       THEN pc' = "raised" /\ row' = row
       ELSE /\ row' = [row EXCEPT !.article_tokens = sentences[1],
                                  !.article_flags = sentences_f[1]]
            /\ pc' = "sampled"
    /\ UNCHANGED <<input, max_token_len, samplerLocals, locatorLocals,
                   batchVars>>

\* lines 270-272
SampleRank ==
    /\ pc = "split"
    /\ HasDelimiter(row.article_tokens)
    /\ s_rank' = [ j \in 1..Len(sentences) |-> RZero ]
    /\ arg_sorted' = ReversedArgSort(scores)
    /\ i' = 0
    /\ pc' = "spread"
    /\ UNCHANGED <<row, input, max_token_len, sentences, sentences_f, scores,
                   rank, flag, cur_len, rank_idx,
                   locatorLocals, batchVars>>

\* lines 274-286, one pass of "for i in range(10)"
SampleSpread ==
    /\ pc = "spread"
    /\ i < TopSentences /\ i < Len(sentences)
    /\ s_rank' = SpreadOnce(s_rank, scores, arg_sorted, i)
    /\ i' = i + 1
    /\ UNCHANGED <<pc, row, input, max_token_len, sentences, sentences_f,
                   scores, arg_sorted, rank, flag, cur_len, rank_idx,
                   locatorLocals, batchVars>>

\* lines 288-291, after the loop: flag[1] = 1 (and flag[0] = 1 of an empty
\* list) raises IndexError when there are fewer than 2 sentences
SampleForceKeep ==
    /\ pc = "spread"
    /\ ~(i < TopSentences /\ i < Len(sentences))
    /\ IF Len(sentences) < 2
       THEN /\ pc' = "raised"
            /\ UNCHANGED <<rank, flag, cur_len, rank_idx>>
       ELSE /\ rank' = ReversedArgSort(s_rank)
            /\ flag' = InitialFlag(Len(sentences))
            /\ cur_len' = InitialLen(sentences)
            /\ rank_idx' = 1
            /\ pc' = "select"
    /\ UNCHANGED <<row, input, max_token_len, sentences, sentences_f, scores,
                   s_rank, arg_sorted, i,
                   locatorLocals, batchVars>>

\* lines 293-297, one pass of "for pos in rank" that does not break
SampleSelect ==
    /\ pc = "select"
    /\ rank_idx <= Len(rank)
    /\ cur_len < max_token_len
    /\ \E sel \in { SelectOnce([flag |-> flag, cur_len |-> cur_len],
                               sentences, s_rank, rank[rank_idx]) } :
           /\ flag' = sel.flag
           /\ cur_len' = sel.cur_len
    /\ rank_idx' = rank_idx + 1
    /\ UNCHANGED <<pc, row, input, max_token_len, sentences, sentences_f,
                   scores, s_rank, arg_sorted, i, rank,
                   locatorLocals, batchVars>>

\* lines 298-309: the loop ends or breaks, the row gets the kept sentences
SampleAssemble ==
    /\ pc = "select"
    /\ ~(rank_idx <= Len(rank) /\ cur_len < max_token_len)
    /\ row' = [row EXCEPT
                 !.article_tokens = Assemble(sentences, flag, max_token_len),
                 !.article_flags = Assemble(sentences_f, flag, max_token_len)]
    /\ pc' = "sampled"
    /\ UNCHANGED <<input, max_token_len, samplerLocals, locatorLocals,
                   batchVars>>

SamplerNext ==
    \/ SampleUnchanged
    \/ SampleSplit
    \/ SampleNoDelimiter
    \/ SampleRank
    \/ SampleSpread
    \/ SampleForceKeep
    \/ SampleSelect
    \/ SampleAssemble

SamplerSpec == SamplerInit /\ [][SamplerNext]_vars


(***************************************************************************)
(* _find_golden_span.                                                      *)
(***************************************************************************)
Space == " "

\* str.strip(): the text without the white space at its two ends
RECURSIVE Strip(_)
Strip(text) ==
    IF text = <<>> THEN text
    ELSE IF Head(text) = Space THEN Strip(Tail(text))
    ELSE IF text[Len(text)] = Space THEN Strip(SubSeq(text, 1, Len(text) - 1))
    ELSE text

\* lines 362-363 with the ratio taken over the smaller of the two sets
PassesPrefilterMin(cand_ans, ground_ans) ==
    LET s1 == CharSet(cand_ans)
        s2 == CharSet(ground_ans)
        mlen == Min2(Cardinality(s1), Cardinality(s2))
    IN  4 * Cardinality(s1 \cap s2) >= mlen

\* lines 360-363: iou = |s1 & s2| / max(|s1|, |s2|), 0.0 when both are
\* empty; the candidate is kept when iou >= 0.25
PassesPrefilter(cand_ans, ground_ans) ==
    LET s1 == CharSet(cand_ans)
        s2 == CharSet(ground_ans)
        mlen == Max2(Cardinality(s1), Cardinality(s2))
    IN  mlen # 0 /\ 4 * Cardinality(s1 \cap s2) >= mlen

\* article_tokens[lo:hi] of the source (0-based, hi exclusive, hi clipped)
Slice(tokens, lo, hi) == SubSeq(tokens, lo + 1, Min2(hi, Len(tokens)))

\* lines 366-367: the candidate with 7 tokens before it and 3 after it
ContextWindow(article_tokens, start, t_len) ==
    Slice(article_tokens, Max2(start - 7, 0), start + t_len + 3)

\* lines 371-372 recording the end of the span one past its last token
AddCandidateEndExclusive(acc, article_tokens, questrin_str, start, t_len, inst) ==
    [ star_spans  |-> Append(acc.star_spans, start),
      end_spans   |-> Append(acc.end_spans, start + t_len),
      inst_scores |-> Append(acc.inst_scores, inst),
      q_r_scores  |->
          IF inst = ROne
          THEN Append(acc.q_r_scores,
                      RougeL_add_inst(
                          Strip(Join(Slice(article_tokens, Max2(start - 7, 0),
                                           start + t_len + 3))),
                          questrin_str).r)
          ELSE acc.q_r_scores,
      rl_q_idx    |->
          IF inst = ROne
          THEN Append(acc.rl_q_idx, Len(acc.star_spans) + 1)
          ELSE acc.rl_q_idx ]

\* lines 364-372: the candidate is scored and recorded; one that scores
\* exactly 1.0 also has its context scored against the question
AddCandidate(acc, article_tokens, questrin_str, start, t_len, inst) ==
    [ star_spans  |-> Append(acc.star_spans, start),
      end_spans   |-> Append(acc.end_spans, start + t_len - 1),
      inst_scores |-> Append(acc.inst_scores, inst),
      q_r_scores  |->
          IF inst = ROne
          THEN Append(acc.q_r_scores,
                      RougeL_add_inst(
                          Strip(Join(ContextWindow(article_tokens, start, t_len))),
                          questrin_str).r)
          ELSE acc.q_r_scores,
      rl_q_idx    |->
          IF inst = ROne
          THEN Append(acc.rl_q_idx, Len(acc.star_spans) + 1)
          ELSE acc.rl_q_idx ]

FilterCandidate(acc, article_tokens, ground_ans, questrin_str, start, t_len, cand_ans) ==
    IF PassesPrefilter(cand_ans, ground_ans)
    THEN AddCandidate(acc, article_tokens, questrin_str, start, t_len,
                      RougeL_add_inst(cand_ans, ground_ans).inst)
    ELSE acc

\* line 357 leaving out the lengths that reach the last token
SkipLengthBeforeLast(start, t_len, len_p) == t_len <= 0 \/ start + t_len >= len_p

\* line 357: a length that is not positive or runs past the article is skipped
SkipLength(start, t_len, len_p) == t_len <= 0 \/ start + t_len > len_p

\* lines 357-372 for one start and one length: acc holds star_spans,
\* end_spans, rl.inst_scores, rl_q.r_scores and rl_q_idx
ScanCandidate(acc, article_tokens, ground_ans, questrin_str, start, t_len) ==
    IF SkipLength(start, t_len, Len(article_tokens)) THEN acc
    ELSE FilterCandidate(acc, article_tokens, ground_ans, questrin_str, start,
             t_len, Strip(Join(Slice(article_tokens, start, start + t_len))))

\* line 356: for t_len in range(len_a - 2, len_a + 3); the lists of one
\* pass are settled (by the comparison) before the next pass begins
RECURSIVE ScanLengths(_, _, _, _, _, _, _)
ScanLengths(acc, article_tokens, ground_ans, questrin_str, start, t_len, last) ==
    IF t_len > last THEN acc
    ELSE LET next == ScanCandidate(acc, article_tokens, ground_ans,
                                   questrin_str, start, t_len)
         IN  IF next = acc
             THEN ScanLengths(acc, article_tokens, ground_ans, questrin_str,
                              start, t_len + 1, last)
             ELSE ScanLengths(next, article_tokens, ground_ans, questrin_str,
                              start, t_len + 1, last)

\* np.argmax taking the last of several maxima
ArgMaxLast(xs) ==
    CHOOSE k \in DOMAIN xs :
        /\ \A j \in DOMAIN xs : ~RLess(xs[k], xs[j])
        /\ \A j \in DOMAIN xs : j > k => RLess(xs[j], xs[k])

\* np.argmax: the first position of the maximum
ArgMax(xs) ==
    CHOOSE k \in DOMAIN xs :
        /\ \A j \in DOMAIN xs : ~RLess(xs[k], xs[j])
        /\ \A j \in DOMAIN xs : j < k => RLess(xs[j], xs[k])

\* line 382 taking the place in rl_q.r_scores for the place in star_spans
BestIndexUnmapped(rl_inst_scores, rl_q_r_scores, q_idx) ==
    IF Cardinality({k \in DOMAIN rl_inst_scores : rl_inst_scores[k] = ROne}) <= 1
    THEN ArgMax(rl_inst_scores)
    ELSE ArgMax(rl_q_r_scores)

\* the highest similarity whatever the number of exact candidates
BestIndexBySimilarity(rl_inst_scores, rl_q_r_scores, q_idx) ==
    ArgMax(rl_inst_scores)

\* lines 376-382
BestIndex(rl_inst_scores, rl_q_r_scores, q_idx) ==
    IF Cardinality({k \in DOMAIN rl_inst_scores : rl_inst_scores[k] = ROne}) <= 1
    THEN ArgMax(rl_inst_scores)
    ELSE q_idx[ArgMax(rl_q_r_scores)]

(***************************************************************************)
(* Inputs of the Locator: the article tokens as the Sampler leaves them,   *)
(* the question and the answer, all cleaned by clean_token.                *)
(***************************************************************************)
MaxArticleLen == 5
MaxAnswerLen == 2

LocatorTokens == { <<"a">>, <<"b">>, <<"c", "d", "e">> }

SeqsUpTo(S, n) == UNION { [1..k -> S] : k \in 0..n }

LocatorQuestions == { << <<"b">> >>, << <<"b">>, <<"a">> >> }

AnswerTokens == { <<"a">>, <<"c", "d", "e">> }

\* the article of four tokens whose last two are the answer
ScenarioRows ==
    { [ article_id      |-> 1,
        article_tokens  |-> << <<"w">>, <<"x">>, <<"y">>, <<"z">> >>,
        article_flags   |-> <<1, 2, 3, 4>>,
        question_tokens |-> << <<"w">>, <<"x">> >>,
        answer_tokens   |-> << <<"y">>, <<"z">> >> ] }

\* an article of ten tokens whose first and last token are the answer
ContextRows ==
    { [ article_id      |-> 1,
        article_tokens  |-> << <<"a">>, <<"b">>, <<"c">>, <<"c">>, <<"c">>,
                               <<"c">>, <<"c">>, <<"c">>, <<"c">>, <<"a">> >>,
        article_flags   |-> <<1, 2, 3, 4, 5, 6, 7, 8, 9, 10>>,
        question_tokens |-> q,
        answer_tokens   |-> << <<"a">> >> ] :
        q \in { << <<"c">>, <<"a">> >>, << <<"b">> >> } }

LocatorRows ==
    { [ article_id      |-> 1,
        article_tokens  |-> a,
        article_flags   |-> Positions(a),
        question_tokens |-> q,
        answer_tokens   |-> ans ] :
        a \in SeqsUpTo(LocatorTokens, MaxArticleLen),
        q \in LocatorQuestions,
        ans \in SeqsUpTo(AnswerTokens, MaxAnswerLen) }
        \cup ScenarioRows \cup ContextRows

LocatorInit ==
    /\ row \in LocatorRows
    /\ input = row
    /\ max_token_len = 0
    /\ pc = "locate"
    /\ sentences = <<>> /\ sentences_f = <<>> /\ scores = <<>>
    /\ s_rank = <<>> /\ arg_sorted = <<>> /\ i = 0
    /\ rank = <<>> /\ flag = <<>> /\ cur_len = 0 /\ rank_idx = 0
    /\ star_spans = <<>> /\ end_spans = <<>> /\ inst_scores = <<>>
    /\ q_r_scores = <<>> /\ rl_q_idx = <<>>
    /\ BatchIdle

\* lines 347-348
GroundAnswer(r) == Strip(Join(r.answer_tokens))
QuestionString(r) == Strip(Join(r.question_tokens))

\* lines 337-354
LocateStart ==
    /\ pc = "locate"
    /\ row' = [ answer_token_start |-> -1,
                answer_token_end   |-> -1,
                delta_token_starts |-> <<>>,
                delta_token_ends   |-> <<>>,
                delta_rouges       |-> <<>> ] @@ row
    /\ star_spans' = <<>> /\ end_spans' = <<>> /\ inst_scores' = <<>>
    /\ q_r_scores' = <<>> /\ rl_q_idx' = <<>>
    /\ i' = 0
    /\ pc' = "scan"
    /\ UNCHANGED <<input, max_token_len, sentences, sentences_f, scores,
                   s_rank, arg_sorted, rank, flag, cur_len, rank_idx,
                   batchVars>>

\* line 355: for i in range(len_p - len_a + 1)
ScanContinues ==
    i < Len(row.article_tokens) - Len(row.answer_tokens) + 1

\* lines 355-372, one pass of the outer loop
LocateScan ==
    /\ pc = "scan"
    /\ ScanContinues
    /\ \E acc \in { ScanLengths(
                      [ star_spans  |-> star_spans,
                        end_spans   |-> end_spans,
                        inst_scores |-> inst_scores,
                        q_r_scores  |-> q_r_scores,
                        rl_q_idx    |-> rl_q_idx ],
                      row.article_tokens, GroundAnswer(row), QuestionString(row),
                      i, Len(row.answer_tokens) - 2, Len(row.answer_tokens) + 2) } :
           /\ star_spans' = acc.star_spans
           /\ end_spans' = acc.end_spans
           /\ inst_scores' = acc.inst_scores
           /\ q_r_scores' = acc.q_r_scores
           /\ rl_q_idx' = acc.rl_q_idx
    /\ i' = i + 1
    /\ UNCHANGED <<pc, row, input, max_token_len, sentences, sentences_f,
                   scores, s_rank, arg_sorted, rank, flag, cur_len, rank_idx,
                   batchVars>>

\* lines 373-374: no candidate, the row keeps -1, -1 and the empty lists
LocateNone ==
    /\ pc = "scan"
    /\ ~ScanContinues
    /\ Len(star_spans) = 0
    /\ pc' = "located"
    /\ UNCHANGED <<row, input, max_token_len, samplerLocals, locatorLocals,
                   batchVars>>

\* lines 375-388
LocateBest ==
    /\ pc = "scan"
    /\ ~ScanContinues
    /\ Len(star_spans) # 0
    /\ \E best_idx \in { BestIndex(inst_scores, q_r_scores, rl_q_idx) } :
           row' = [row EXCEPT !.answer_token_start = star_spans[best_idx],
                              !.answer_token_end = end_spans[best_idx],
                              !.delta_token_starts = star_spans,
                              !.delta_token_ends = end_spans,
                              !.delta_rouges = inst_scores]
    /\ pc' = "located"
    /\ UNCHANGED <<input, max_token_len, samplerLocals, locatorLocals,
                   batchVars>>

LocatorNext ==
    \/ LocateStart
    \/ LocateScan
    \/ LocateNone
    \/ LocateBest

LocatorSpec == LocatorInit /\ [][LocatorNext]_vars

(***************************************************************************)
(* The two row transforms as functions of the row, built from the steps    *)
(* above: what _apply_sample_article and _apply_find_gold_span apply to    *)
(* each row of a partition.  A transform that raises yields IndexError.    *)
(***************************************************************************)
IndexError == [ error |-> "IndexError" ]

Raised(outcome) == "error" \in DOMAIN outcome

\* lines 274-286, the passes from iter on
RECURSIVE SpreadLoop(_, _, _, _)
SpreadLoop(rk, sc, sorted, iter) ==
    IF iter < TopSentences /\ iter < Len(sc)
    THEN SpreadLoop(SpreadOnce(rk, sc, sorted, iter), sc, sorted, iter + 1)
    ELSE rk

\* lines 293-299, the passes from position idx of order on
RECURSIVE SelectLoop(_, _, _, _, _, _)
SelectLoop(sel, sents, rk, order, idx, budget) ==
    IF idx <= Len(order) /\ sel.cur_len < budget
    THEN SelectLoop(SelectOnce(sel, sents, rk, order[idx]), sents, rk, order,
                    idx + 1, budget)
    ELSE sel

SampleKept(r, budget, split, sel) ==
    [r EXCEPT !.article_tokens = Assemble(split.sentences, sel.flag, budget),
              !.article_flags = Assemble(split.sentences_f, sel.flag, budget)]

SampleRanked(r, budget, split, rk) ==
    SampleKept(r, budget, split,
               SelectLoop([ flag    |-> InitialFlag(Len(split.sentences)),
                            cur_len |-> InitialLen(split.sentences) ],
                          split.sentences, rk, ReversedArgSort(rk), 1, budget))

SampleSentences(r, budget, split) ==
    IF ~HasDelimiter(r.article_tokens)
    THEN IF split.sentences = <<>>
         THEN IndexError
         ELSE [r EXCEPT !.article_tokens = split.sentences[1],
                        !.article_flags = split.sentences_f[1]]
    ELSE IF Len(split.sentences) < 2
    THEN IndexError
    ELSE SampleRanked(r, budget, split,
             SpreadLoop([ j \in 1..Len(split.sentences) |-> RZero ],
                        split.r_scores, ReversedArgSort(split.r_scores), 0))

\* _sample_article, lines 227-309
SampleArticle(r, budget) ==
    IF WithinBudget(r.article_tokens, budget)
    THEN r
    ELSE SampleSentences(r, budget,
             SplitSentences(r.article_tokens, r.article_flags, r.question_tokens))

\* lines 355-372, the passes of the outer loop from start on
RECURSIVE ScanLoop(_, _, _)
ScanLoop(acc, r, start) ==
    IF start < Len(r.article_tokens) - Len(r.answer_tokens) + 1
    THEN LET next == ScanLengths(acc, r.article_tokens, GroundAnswer(r),
                                 QuestionString(r), start,
                                 Len(r.answer_tokens) - 2,
                                 Len(r.answer_tokens) + 2)
         IN  IF next = acc THEN ScanLoop(acc, r, start + 1)
             ELSE ScanLoop(next, r, start + 1)
    ELSE acc

\* lines 340-344
SpanDefaults(r) ==
    [ answer_token_start |-> -1,
      answer_token_end   |-> -1,
      delta_token_starts |-> <<>>,
      delta_token_ends   |-> <<>>,
      delta_rouges       |-> <<>> ] @@ r

\* lines 384-388
SpanRow(r, acc, best_idx) ==
    [r EXCEPT !.answer_token_start = acc.star_spans[best_idx],
              !.answer_token_end = acc.end_spans[best_idx],
              !.delta_token_starts = acc.star_spans,
              !.delta_token_ends = acc.end_spans,
              !.delta_rouges = acc.inst_scores]

\* lines 373-390
SpanResult(r, acc) ==
    IF Len(acc.star_spans) = 0
    THEN r
    ELSE SpanRow(r, acc, BestIndex(acc.inst_scores, acc.q_r_scores, acc.rl_q_idx))

\* _find_golden_span, lines 335-390
FindGoldenSpan(r) ==
    SpanResult(SpanDefaults(r),
               ScanLoop([ star_spans |-> <<>>, end_spans |-> <<>>,
                          inst_scores |-> <<>>, q_r_scores |-> <<>>,
                          rl_q_idx |-> <<>> ], r, 0))

(***************************************************************************)
(* Segmentation (_apply_cut_jieba, _apply_cut_pyltp).  The segmenters are  *)
(* external; here each character is a token and the tag tells the marker   *)
(* from the rest.                                                          *)
(***************************************************************************)
Segment(text) == [ k \in 1..Len(text) |-> <<text[k]>> ]

Postag(tokens) ==
    [ k \in 1..Len(tokens) |-> IF tokens[k] = <<Marker>> THEN "wp" ELSE "n" ]

\* lines 139-143: jieba cuts the whole text
CutJieba(text) ==
    [ tokens |-> Segment(text), flags |-> Postag(Segment(text)) ]

\* lines 157-164: the text is cut piece by piece between the markers, and a
\* marker token is put back after every piece but the last
RECURSIVE CutPieces(_, _, _)
CutPieces(text, k, piece) ==
    IF k > Len(text) THEN Segment(piece)
    ELSE IF text[k] = Marker
    THEN Segment(piece) \o << <<Marker>> >> \o CutPieces(text, k + 1, <<>>)
    ELSE CutPieces(text, k + 1, Append(piece, text[k]))

\* lines 151-171
CutPyltp(text) ==
    [ tokens |-> IF Marker \in CharSet(text)
                 THEN CutPieces(text, 1, <<>>)
                 ELSE Segment(text),
      flags  |-> Postag(IF Marker \in CharSet(text)
                        THEN CutPieces(text, 1, <<>>)
                        ELSE Segment(text)) ]

(***************************************************************************)
(* parallel_sample_article, parallel_find_gold_span, parallel_cut.         *)
(***************************************************************************)
\* pd.merge(article_df, qa_df, how='inner', on=['article_id']): the rows of
\* article_df in order, each with the rows of qa_df of its article in order
RECURSIVE MergeOne(_, _)
MergeOne(a, qas) ==
    IF qas = <<>> THEN <<>>
    ELSE (IF Head(qas).article_id = a.article_id
          THEN << Head(qas) @@ a >> ELSE <<>>) \o MergeOne(a, Tail(qas))

RECURSIVE Merge(_, _)
Merge(left, right) ==
    IF left = <<>> THEN <<>>
    ELSE MergeOne(Head(left), right) \o Merge(Tail(left), right)

\* np.array_split(table, w): w partitions of consecutive rows, the first
\* n % w of them one row longer than the others
ArraySplit(table, w) ==
    [ k \in 1..w |->
        SubSeq(table,
               (k - 1) * (Len(table) \div w) + Min2(k - 1, Len(table) % w) + 1,
               k * (Len(table) \div w) + Min2(k, Len(table) % w)) ]

\* the transforms with a Sampler that leaves every row as it is
TransformUnsampled(st, method, budget, r) ==
    CASE st = "sample" -> r
      [] st = "span" -> FindGoldenSpan(r)
      [] st = "cut" -> IF method = "pyltp" THEN CutPyltp(r[col])
                       ELSE CutJieba(r[col])

\* the transform of a stage on one row
Transform(st, method, budget, r) ==
    CASE st = "sample" -> SampleArticle(r, budget)
      [] st = "span" -> FindGoldenSpan(r)
      [] st = "cut" -> IF method = "pyltp" THEN CutPyltp(r[col])
                       ELSE CutJieba(r[col])

\* df.apply(..., axis=1) of a partition: the transform row by row, in the
\* order of the rows
ApplyRows(st, method, budget, part) ==
    [ j \in 1..Len(part) |-> Transform(st, method, budget, part[j]) ]

\* the rows that did not raise, sent back as the result of the partition
WorkerResultPartial(rows) ==
    [ status |-> "ok",
      rows   |-> SelectSeq(rows, LAMBDA r : ~Raised(r)) ]

\* what a worker sends back: the new partition, or the exception of the
\* first row that raised
WorkerResult(rows) ==
    IF \E j \in DOMAIN rows : Raised(rows[j])
    THEN [ status |-> "IndexError", rows |-> <<>> ]
    ELSE [ status |-> "ok", rows |-> rows ]

Apply(st, method, budget, part) ==
    WorkerResult(ApplyRows(st, method, budget, part))

\* the result of a partition put in the first free place of the list
StoreAsFinished(results, k, out) ==
    [ j \in DOMAIN results |->
        IF j = Len(finish_order) + 1 THEN out ELSE results[j] ]

\* p.map keeps the result of partition k at place k
StoreResult(results, k, out) == [results EXCEPT ![k] = out]

\* pd.concat(pool_results, axis=0)
Concat(parts) == Flatten(parts)

(***************************************************************************)
(* Inputs of the parallel_* functions.                                     *)
(***************************************************************************)
MaxRows == 3
MaxWorkers == 3

BatchArticles ==
    << [ article_id     |-> 1,
         article_tokens |-> << <<"a">>, <<Marker>> >>,
         article_flags  |-> <<1, 2>> ],
       [ article_id     |-> 2,
         article_tokens |-> << <<"a">>, <<Marker>>, <<"a", "b">>, <<"c">>,
                               <<Marker>> >>,
         article_flags  |-> <<1, 2, 3, 4, 5>> ],
       [ article_id     |-> 3,
         article_tokens |-> << <<"a", "b">>, <<"c">>, <<Marker>>, <<"c">> >>,
         article_flags  |-> <<1, 2, 3, 4>> ] >>

\* the questions asked, by the article they are about
QuestionOf(aid) ==
    [ article_id      |-> aid,
      question        |-> IF aid = 1 THEN <<"a", "b">> ELSE <<"c", Marker, "a">>,
      question_tokens |-> IF aid = 1 THEN << <<"a">>, <<"b">> >>
                          ELSE << <<"c">> >>,
      answer_tokens   |-> IF aid = 2 THEN << <<"c">> >> ELSE << <<"a">> >> ]

\* a table of questions: row j has question_id j
QaTables ==
    { [ j \in 1..Len(aids) |-> [question_id |-> j] @@ QuestionOf(aids[j]) ] :
        aids \in SeqsUpTo(1..Len(BatchArticles), MaxRows) }

BatchBudgets == {3, 4}

BatchInit ==
    /\ stage \in {"sample", "span", "cut"}
    /\ cut_word_method \in IF stage = "cut" THEN {"jieba", "pyltp"} ELSE {"none"}
    /\ n_cpu \in 1..MaxWorkers
    /\ qa_df \in QaTables
    /\ article_df = IF stage = "sample" THEN BatchArticles ELSE <<>>
    /\ sample_df = IF stage = "span" THEN Merge(BatchArticles, qa_df)
                   ELSE IF stage = "cut" THEN qa_df ELSE <<>>
    /\ max_token_len \in IF stage = "sample" THEN BatchBudgets ELSE {0}
    /\ split_dfs = <<>> /\ task = <<>> /\ task_result = <<>>
    /\ finish_order = <<>> /\ pool_results = <<>> /\ res = <<>>
    /\ pc = "call"
    /\ PipelineIdle
    /\ col = IF stage = "cut" THEN "question" ELSE "none"
    /\ row = <<>> /\ input = <<>>
    /\ sentences = <<>> /\ sentences_f = <<>> /\ scores = <<>>
    /\ s_rank = <<>> /\ arg_sorted = <<>> /\ i = 0
    /\ rank = <<>> /\ flag = <<>> /\ cur_len = 0 /\ rank_idx = 0
    /\ star_spans = <<>> /\ end_spans = <<>> /\ inst_scores = <<>>
    /\ q_r_scores = <<>> /\ rl_q_idx = <<>>

\* the pool is created, the table split and the partitions handed to p.map
Submit(table) ==
    /\ sample_df' = table
    /\ split_dfs' = ArraySplit(table, n_cpu)
    /\ task' = [ k \in 1..n_cpu |-> "queued" ]
    /\ task_result' = [ k \in 1..n_cpu |-> [ status |-> "none", rows |-> <<>> ] ]
    /\ finish_order' = <<>>
    /\ pc' = "map"
    /\ UNCHANGED <<stage, cut_word_method, n_cpu, article_df, qa_df,
                   pool_results, res, max_token_len, rowVars,
                   pipeVars>>

\* parallel_sample_article, lines 318-326
ParallelSampleArticle ==
    /\ pc = "call" /\ stage = "sample"
    /\ Submit(Merge(article_df, qa_df))

\* parallel_find_gold_span, lines 449-456
ParallelFindGoldSpan ==
    /\ pc = "call" /\ stage = "span"
    /\ Submit(sample_df)

\* parallel_cut, lines 178-187
ParallelCut ==
    /\ pc = "call" /\ stage = "cut"
    /\ Submit(sample_df)

\* a worker of the pool takes the next partition of the queue
TaskStart(k) ==
    /\ pc = "map"
    /\ task[k] = "queued"
    /\ \A j \in 1..(k - 1) : task[j] # "queued"
    /\ task' = [task EXCEPT ![k] = "running"]
    /\ UNCHANGED <<stage, cut_word_method, n_cpu, article_df, qa_df, sample_df,
                   split_dfs, task_result, finish_order, pool_results, res,
                   pc, max_token_len, rowVars,
                   pipeVars>>

\* the worker applies the transform to its partition and sends the result,
\* or the exception, back
TaskFinish(k) ==
    /\ pc = "map"
    /\ task[k] = "running"
    /\ task' = [task EXCEPT ![k] = "done"]
    /\ task_result' = StoreResult(task_result, k,
                          Apply(stage, cut_word_method, max_token_len,
                                split_dfs[k]))
    /\ finish_order' = Append(finish_order, k)
    /\ UNCHANGED <<stage, cut_word_method, n_cpu, article_df, qa_df, sample_df,
                   split_dfs, pool_results, res, pc, max_token_len, rowVars,
                   pipeVars>>

\* p.map returns the results once every partition is done
MapReturn ==
    /\ pc = "map"
    /\ \A k \in DOMAIN task : task[k] = "done"
    /\ \A k \in DOMAIN task_result : task_result[k].status = "ok"
    /\ pool_results' = [ k \in DOMAIN task_result |-> task_result[k].rows ]
    /\ pc' = "concat"
    /\ UNCHANGED <<stage, cut_word_method, n_cpu, article_df, qa_df, sample_df,
                   split_dfs, task, task_result, finish_order, res,
                   max_token_len, rowVars,
                   pipeVars>>

\* p.map raises the exception of a worker in the caller
MapRaise ==
    /\ pc = "map"
    /\ \A k \in DOMAIN task : task[k] = "done"
    /\ \E k \in DOMAIN task_result : task_result[k].status # "ok"
    /\ pc' = "failed"
    /\ UNCHANGED <<batchVars, max_token_len, rowVars>>

\* lines 329-331, 459-461, 190-191
ConcatResults ==
    /\ pc = "concat"
    /\ res' = Concat(pool_results)
    /\ pc' = "returned"
    /\ UNCHANGED <<stage, cut_word_method, n_cpu, article_df, qa_df, sample_df,
                   split_dfs, task, task_result, finish_order, pool_results,
                   max_token_len, rowVars,
                   pipeVars>>

BatchNext ==
    \/ ParallelSampleArticle
    \/ ParallelFindGoldSpan
    \/ ParallelCut
    \/ \E k \in 1..n_cpu : TaskStart(k)
    \/ \E k \in 1..n_cpu : TaskFinish(k)
    \/ MapReturn
    \/ MapRaise
    \/ ConcatResults

BatchSpec == BatchInit /\ [][BatchNext]_vars

(***************************************************************************)
(* preprocess_dataset: trans_to_df, clean_text, the three parallel_cut     *)
(* calls, clean_token, parallel_sample_article, parallel_find_gold_span.   *)
(* The texts of the model hold letters, the marker, blanks, tabs, line     *)
(* ends, double quotes and the comma (for the ideographic comma of         *)
(* drop_list); they hold no full-width digit, so lines 88-98 leave them    *)
(* as they are.  After line 81 a blank is the only white space left, which *)
(* is what Strip removes.                                                  *)
(***************************************************************************)
Tab == "\t"
Newline == "\n"
Quote == "\""
Comma == ","

\* re.sub of a pattern that matches one character of chars
SubChars(text, chars, repl) ==
    Flatten([ k \in 1..Len(text) |->
                IF text[k] \in chars THEN repl ELSE << text[k] >> ])

\* line 79, re.sub('\s{2,}', '', row): the runs of two or more white-space
\* characters are taken out
DropRuns(text) ==
    LET ws(k) == k \in 1..Len(text) /\ text[k] \in {Space, Tab, Newline}
    IN  Flatten([ k \in 1..Len(text) |->
                    IF ws(k) /\ (ws(k - 1) \/ ws(k + 1))
                    THEN <<>> ELSE << text[k] >> ])

\* the text without its last character, stripped
DropLast(text) == Strip(SubSeq(text, 1, Len(text) - 1))

\* clean_text.clean, lines 77-102
CleanText(text) ==
    LET t == SubChars(SubChars(DropRuns(SubChars(text, {Tab}, <<Space>>)),
                               {Quote}, <<>>),
                      {Newline}, <<Space>>)
    IN  IF Len(t) > 0 /\ t[Len(t)] = Marker THEN DropLast(t) ELSE t

\* line 124
drop_list == {Marker, Comma, Space}

\* line 125, for an answer that is not empty
TrimLast(answer) ==
    IF answer[Len(answer)] \in drop_list THEN DropLast(answer) ELSE answer

\* line 126: answer[0] of an empty text raises IndexError
TrimRaises(answer) == answer # <<>> /\ TrimLast(answer) = <<>>

\* lines 125-126
TrimAnswer(answer) ==
    IF answer = <<>> \/ TrimLast(answer) = <<>> THEN <<>>
    ELSE IF Head(TrimLast(answer)) \in drop_list
    THEN Strip(Tail(TrimLast(answer)))
    ELSE TrimLast(answer)

\* lines 121-127
CleanAnswer(text) == TrimAnswer(Strip(CleanText(text)))

\* lines 50-52, 63 and 113-117: one row per record of the file, the title
\* and the content cleaned and joined by a marker
ArticleRows(data) ==
    [ k \in 1..Len(data) |->
        [ article_id |-> data[k].article_id,
          article    |-> CleanText(data[k].article_title) \o << Marker >>
                            \o CleanText(data[k].article_content) ] ]

\* lines 53-64 and 119-127: one row per question, in the order of the file
QuestionRows(data, with_answer) ==
    Flatten([ k \in 1..Len(data) |->
        [ j \in 1..Len(data[k].questions) |->
            IF with_answer
            THEN [ article_id  |-> data[k].article_id,
                   question_id |-> data[k].questions[j].question_id,
                   question    |-> CleanText(data[k].questions[j].question),
                   answer      |-> CleanAnswer(data[k].questions[j].answer) ]
            ELSE [ article_id  |-> data[k].article_id,
                   question_id |-> data[k].questions[j].question_id,
                   question    |-> CleanText(data[k].questions[j].question) ] ] ])

\* whether line 126 raises for an answer of the file
CleanTextRaises(data, with_answer) ==
    /\ with_answer
    /\ \E k \in 1..Len(data) : \E j \in 1..Len(data[k].questions) :
          TrimRaises(Strip(CleanText(data[k].questions[j].answer)))

\* clean_token.clean, lines 203-209
RECURSIVE CleanLoop(_, _, _, _)
CleanLoop(tokens, flags, tokens_cleaned, flags_cleaned) ==
    IF tokens = <<>> \/ flags = <<>>
    THEN [ tokens |-> tokens_cleaned, flags |-> flags_cleaned ]
    ELSE IF Strip(Head(tokens)) # <<>>
    THEN CleanLoop(Tail(tokens), Tail(flags),
                   Append(tokens_cleaned, Strip(Head(tokens))),
                   Append(flags_cleaned, Head(flags)))
    ELSE CleanLoop(Tail(tokens), Tail(flags), tokens_cleaned, flags_cleaned)

\* the tokens cleaned, with the flags of the first tokens of the row
CleanTokenUnpaired(r, token_col, flag_col) ==
    [r EXCEPT ![token_col] = CleanLoop(r[token_col], r[flag_col], <<>>, <<>>).tokens,
              ![flag_col] = SubSeq(r[flag_col], 1,
                              Len(CleanLoop(r[token_col], r[flag_col], <<>>, <<>>).tokens))]

\* clean_token.clean, lines 202-214
CleanToken(r, token_col, flag_col) ==
    [r EXCEPT ![token_col] = CleanLoop(r[token_col], r[flag_col], <<>>, <<>>).tokens,
              ![flag_col] = CleanLoop(r[token_col], r[flag_col], <<>>, <<>>).flags]

\* lines 216-219: df.apply(clean) over a table
CleanTokenRows(table, token_col, flag_col) ==
    [ k \in 1..Len(table) |-> CleanToken(table[k], token_col, flag_col) ]

(***************************************************************************)
(* clean_token followed by _sample_article on one row: the tokens as the   *)
(* segmenter gives them, some blank or with a blank at an end; the flag of *)
(* a token is its position in the row.                                     *)
(***************************************************************************)
MaxRawSegs == 5

RawSegmentPool ==
    { << << "a" >>, << Marker >> >>,
      << << Space, "b" >>, << Space >>, << Marker >> >>,
      << << Space >> >> }

RawTailPool ==
    { <<>>, << << "a" >>, << Space, "b" >>, << Space >>, << "a" >>, << "a" >> >> }

RawArticles ==
    { Flatten(segs) \o tail :
        segs \in UNION { [1..k -> RawSegmentPool] : k \in 0..MaxRawSegs },
        tail \in RawTailPool }

CleanBudgets == {3, 9}

CleanInit ==
    /\ \E a \in RawArticles :
          raw = [ article_id      |-> 1,
                  article_tokens  |-> a,
                  article_flags   |-> Positions(a),
                  question_tokens |-> << << "b" >> >> ]
    /\ row = raw /\ input = raw
    /\ max_token_len \in CleanBudgets
    /\ pc = "clean"
    /\ sentences = <<>> /\ sentences_f = <<>> /\ scores = <<>>
    /\ s_rank = <<>> /\ arg_sorted = <<>> /\ i = 0
    /\ rank = <<>> /\ flag = <<>> /\ cur_len = 0 /\ rank_idx = 0
    /\ star_spans = <<>> /\ end_spans = <<>> /\ inst_scores = <<>>
    /\ q_r_scores = <<>> /\ rl_q_idx = <<>>
    /\ stage = "none" /\ cut_word_method = "none" /\ n_cpu = 0
    /\ article_df = <<>> /\ qa_df = <<>> /\ sample_df = <<>>
    /\ split_dfs = <<>> /\ task = <<>> /\ task_result = <<>>
    /\ finish_order = <<>> /\ pool_results = <<>> /\ res = <<>>
    /\ step = "none" /\ col = "none" /\ adf = <<>> /\ qadf = <<>>
    /\ labeled = FALSE /\ trace = <<>>
    /\ cfg = [ article_sample_len |-> 0, article_sample_len_test |-> 0 ]
    /\ RcIdle

\* line 216: clean on a row of article_df; the row it returns is the row
\* the Sampler gets
CleanTokenStep ==
    /\ pc = "clean"
    /\ row' = CleanToken(row, "article_tokens", "article_flags")
    /\ input' = row'
    /\ pc' = "sample"
    /\ UNCHANGED <<max_token_len, samplerLocals, locatorLocals, batchVars>>

CleanNext == CleanTokenStep \/ SamplerNext

CleanSpec == CleanInit /\ [][CleanNext]_vars

(***************************************************************************)
(* Inputs of preprocess_dataset: the records of the file, each an article  *)
(* with one question; the configuration.                                   *)
(***************************************************************************)
MaxDocs == 2

\* title and content: an article of five sentences, an article of one
\* sentence and a one-token fragment, an article with white space to clean
DocPool ==
    { [ article_title   |-> << "a" >>,
        article_content |-> << "b", Marker, "c", Marker, "d", Marker, "e", "a" >> ],
      [ article_title   |-> << "a" >>,
        article_content |-> << "b" >> ],
      [ article_title   |-> << "a", Quote, "b" >>,
        article_content |-> << "c", Newline, "d", Tab, Tab, Marker >> ] }

QaPool ==
    { [ question |-> << "c" >>, answer |-> << "e" >> ],
      [ question |-> << "a", Space, "b" >>, answer |-> << Space, "b", Marker >> ],
      [ question |-> << "d" >>, answer |-> << Comma >> ] }

Record(k, doc, qa) ==
    [ article_id      |-> k,
      article_title   |-> doc.article_title,
      article_content |-> doc.article_content,
      questions       |-> << [ question_id |-> k ] @@ qa >> ]

Datasets ==
    UNION { { [ k \in 1..n |-> Record(k, docs[k], qas[k]) ] :
                docs \in [1..n -> DocPool], qas \in [1..n -> QaPool] } :
            n \in 1..MaxDocs }

Configs ==
    { [ article_sample_len |-> 8, article_sample_len_test |-> 8 ],
      [ article_sample_len |-> 2, article_sample_len_test |-> 4 ] }

PoolSizes == {1, 2}

PipelineInit ==
    /\ raw \in Datasets
    /\ labeled \in BOOLEAN
    /\ cfg \in Configs
    /\ cut_word_method = "pyltp"
    /\ n_cpu \in PoolSizes
    /\ RcIdle
    /\ step = "clean_text" /\ pc = "idle"
    /\ stage = "none" /\ col = "none"
    /\ adf = <<>> /\ qadf = <<>> /\ trace = <<>>
    /\ article_df = <<>> /\ qa_df = <<>> /\ sample_df = <<>>
    /\ split_dfs = <<>> /\ task = <<>> /\ task_result = <<>>
    /\ finish_order = <<>> /\ pool_results = <<>> /\ res = <<>>
    /\ max_token_len = 0
    /\ row = <<>> /\ input = <<>>
    /\ sentences = <<>> /\ sentences_f = <<>> /\ scores = <<>>
    /\ s_rank = <<>> /\ arg_sorted = <<>> /\ i = 0
    /\ rank = <<>> /\ flag = <<>> /\ cur_len = 0 /\ rank_idx = 0
    /\ star_spans = <<>> /\ end_spans = <<>> /\ inst_scores = <<>>
    /\ q_r_scores = <<>> /\ rl_q_idx = <<>>

poolVars == <<split_dfs, task, task_result, finish_order, pool_results, res>>

runVars == <<cut_word_method, n_cpu, labeled, cfg, raw, rowVars, rcVars>>

\* lines 468-471: trans_to_df, clean_text, then parallel_cut(adf, 'article')
PipeCleanText ==
    /\ step = "clean_text" /\ pc = "idle"
    /\ IF CleanTextRaises(raw, labeled)
       THEN /\ step' = "failed"
            /\ trace' = Append(trace, "normalize")
            /\ UNCHANGED <<pc, stage, col, adf, qadf, sample_df>>
       ELSE /\ adf' = ArticleRows(raw)
            /\ qadf' = QuestionRows(raw, labeled)
            /\ stage' = "cut" /\ col' = "article"
            /\ sample_df' = adf'
            /\ pc' = "call"
            /\ step' = "cut_article"
            /\ trace' = trace \o << "normalize", "segment" >>
    /\ UNCHANGED <<article_df, qa_df, max_token_len, poolVars, runVars>>

\* lines 472-476: the tokens and flags of the articles, then
\* parallel_cut(qadf, 'question')
PipeArticleCut ==
    /\ step = "cut_article" /\ pc = "returned"
    /\ adf' = [ k \in 1..Len(adf) |->
                  [ article_id     |-> adf[k].article_id,
                    article_tokens |-> res[k].tokens,
                    article_flags  |-> res[k].flags ] ]
    /\ col' = "question"
    /\ sample_df' = qadf
    /\ pc' = "call"
    /\ step' = "cut_question"
    /\ UNCHANGED <<stage, qadf, trace, article_df, qa_df, max_token_len,
                   poolVars, runVars>>

\* lines 477-482: the tokens and flags of the questions, then, with
\* answers, parallel_cut(qadf, 'answer')
PipeQuestionCut ==
    /\ step = "cut_question" /\ pc = "returned"
    /\ qadf' = [ k \in 1..Len(qadf) |->
                  IF labeled
                  THEN [ article_id      |-> qadf[k].article_id,
                         question_id     |-> qadf[k].question_id,
                         answer          |-> qadf[k].answer,
                         question_tokens |-> res[k].tokens,
                         question_flags  |-> res[k].flags ]
                  ELSE [ article_id      |-> qadf[k].article_id,
                         question_id     |-> qadf[k].question_id,
                         question_tokens |-> res[k].tokens,
                         question_flags  |-> res[k].flags ] ]
    /\ IF labeled
       THEN /\ col' = "answer"
            /\ sample_df' = qadf'
            /\ pc' = "call"
            /\ step' = "cut_answer"
       ELSE /\ pc' = "idle"
            /\ step' = "clean_token"
            /\ UNCHANGED <<col, sample_df>>
    /\ UNCHANGED <<stage, adf, trace, article_df, qa_df, max_token_len,
                   poolVars, runVars>>

\* lines 483-484
PipeAnswerCut ==
    /\ step = "cut_answer" /\ pc = "returned"
    /\ qadf' = [ k \in 1..Len(qadf) |->
                  [ answer_tokens |-> res[k].tokens,
                    answer_flags  |-> res[k].flags ] @@ qadf[k] ]
    /\ pc' = "idle"
    /\ step' = "clean_token"
    /\ UNCHANGED <<stage, col, adf, sample_df, trace, article_df, qa_df,
                   max_token_len, poolVars, runVars>>

\* lines 486-488 and 491: clean_token, then parallel_sample_article with
\* the budget of the configuration
PipeCleanToken ==
    /\ step = "clean_token" /\ pc = "idle"
    /\ adf' = CleanTokenRows(adf, "article_tokens", "article_flags")
    /\ qadf' = IF labeled
               THEN CleanTokenRows(
                        CleanTokenRows(qadf, "question_tokens", "question_flags"),
                        "answer_tokens", "answer_flags")
               ELSE CleanTokenRows(qadf, "question_tokens", "question_flags")
    /\ stage' = "sample" /\ col' = "none"
    /\ article_df' = adf' /\ qa_df' = qadf'
    /\ max_token_len' = IF labeled THEN cfg.article_sample_len
                        ELSE cfg.article_sample_len_test
    /\ pc' = "call"
    /\ step' = "sample"
    /\ trace' = trace \o << "clean_token", "sample" >>
    /\ UNCHANGED <<sample_df, poolVars, runVars>>

\* lines 488-489 and 491: the result of the Sampler is sample_df; with
\* answers it goes to parallel_find_gold_span
PipeSampled ==
    /\ step = "sample" /\ pc = "returned"
    /\ sample_df' = res
    /\ IF labeled
       THEN /\ stage' = "span"
            /\ pc' = "call"
            /\ step' = "span"
            /\ trace' = Append(trace, "locate")
       ELSE /\ pc' = "idle"
            /\ step' = "done"
            /\ UNCHANGED <<stage, trace>>
    /\ UNCHANGED <<col, adf, qadf, article_df, qa_df, max_token_len,
                   poolVars, runVars>>

\* lines 489 and 494-501
PipeLocated ==
    /\ step = "span" /\ pc = "returned"
    /\ sample_df' = res
    /\ pc' = "idle"
    /\ step' = "done"
    /\ UNCHANGED <<stage, col, adf, qadf, trace, article_df, qa_df,
                   max_token_len, poolVars, runVars>>

\* the exception of a parallel_* call is caught nowhere in
\* preprocess_dataset: it ends the run
PipeRaise ==
    /\ pc = "failed" /\ step \notin {"failed", "none"}
    /\ step' = "failed"
    /\ UNCHANGED <<pc, stage, col, adf, qadf, sample_df, trace, article_df,
                   qa_df, max_token_len, poolVars, runVars>>

PipelineNext ==
    \/ PipeCleanText
    \/ PipeArticleCut
    \/ PipeQuestionCut
    \/ PipeAnswerCut
    \/ PipeCleanToken
    \/ PipeSampled
    \/ PipeLocated
    \/ PipeRaise
    \/ BatchNext

PipelineSpec == PipelineInit /\ [][PipelineNext]_vars

(***************************************************************************)
(* RCModel.train (src/rc_model.py).  The session, the batches and the      *)
(* predictions are left out: an epoch is its number of batches, and the    *)
(* scores evaluate() computes are taken from ScorePool, in hundredths.     *)
(***************************************************************************)
MaxEpochs == 2

\* line 444
eval_every_n_batch == 1000

\* the number of batches data.gen_mini_batches('train', ...) yields
BatchCounts == {0, 1, 2, eval_every_n_batch}

ScorePool == {0, 30, 70}

KeyError == [ error |-> "KeyError" ]

\* lines 674-681: the keys of the dictionary evaluate() returns
EvalKeys ==
    { "Rouge-L[cut]", "Bleu-4[cut]", "Rouge-L[gt_cut]", "Bleu-4[gt_cut]",
      "Rouge-L[org]", "Bleu-4[org]" }

\* lines 664-692: what evaluate() returns as bleu_rouge
Evaluate(rouge_cut, rouge_gt_cut, rouge_org) ==
    [ k \in EvalKeys |->
        CASE k = "Rouge-L[cut]" -> rouge_cut
          [] k = "Rouge-L[gt_cut]" -> rouge_gt_cut
          [] k = "Rouge-L[org]" -> rouge_org
          [] OTHER -> 0 ]

\* lines 514-516 and 561-563: bleu_rouge['Rouge-L'] raises KeyError when the
\* dictionary has no such key; otherwise the model is saved when the score
\* is above max_rouge_l, which then takes the score
SaveIfBetter(result, best) ==
    IF "Rouge-L" \notin DOMAIN result
    THEN KeyError
    ELSE [ save        |-> result["Rouge-L"] > best,
           max_rouge_l |-> Max2(result["Rouge-L"], best) ]

TrainInit ==
    /\ PreprocessIdle /\ PoolIdle /\ FindIdle
    /\ pc = "train"
    /\ epochs \in 1..MaxEpochs
    /\ evaluate \in BOOLEAN
    /\ dev_set \in BOOLEAN
    /\ train_batches \in BatchCounts
    /\ epoch = 1 /\ bitx = 0 /\ max_rouge_l = 0
    /\ bleu_rouge = <<>> /\ saved = <<>> /\ error = "none"
    /\ max_token_len = 0
    /\ row = <<>> /\ input = <<>>
    /\ sentences = <<>> /\ sentences_f = <<>> /\ scores = <<>>
    /\ s_rank = <<>> /\ arg_sorted = <<>> /\ i = 0
    /\ rank = <<>> /\ flag = <<>> /\ cur_len = 0 /\ rank_idx = 0
    /\ star_spans = <<>> /\ end_spans = <<>> /\ inst_scores = <<>>
    /\ q_r_scores = <<>> /\ rl_q_idx = <<>>

otherVars == <<row, input, max_token_len, samplerLocals, locatorLocals,
               stage, cut_word_method, n_cpu, article_df, qa_df, sample_df,
               split_dfs, task, task_result, finish_order, pool_results, res,
               step, col, adf, qadf, labeled, cfg, trace, raw>>

trainOtherVars == <<otherVars, findVars>>

\* lines 551-563 and 509-516: evaluate() on the dev set, then the
\* comparison of its score with max_rouge_l; save_prefix is modelled as 0
\* and save_prefix + '_' + str(epoch) as epoch
EvaluateAndSave(next_pc) ==
    \E rouge_cut \in ScorePool, rouge_gt_cut \in ScorePool, rouge_org \in ScorePool :
        /\ bleu_rouge' = Evaluate(rouge_cut, rouge_gt_cut, rouge_org)
        /\ \E out \in { SaveIfBetter(bleu_rouge', max_rouge_l) } :
              IF Raised(out)
              THEN /\ error' = out.error
                   /\ pc' = "raised"
                   /\ UNCHANGED <<max_rouge_l, saved>>
              ELSE /\ max_rouge_l' = out.max_rouge_l
                   /\ saved' = IF out.save THEN Append(saved, 0) ELSE saved
                   /\ pc' = next_pc
                   /\ UNCHANGED error

\* lines 539-541: an epoch begins
TrainEpochStart ==
    /\ pc = "train" /\ epoch <= epochs
    /\ bitx' = 0
    /\ pc' = "batches"
    /\ UNCHANGED <<epochs, epoch, evaluate, dev_set, train_batches,
                   max_rouge_l, bleu_rouge, saved, error, trainOtherVars>>

\* lines 445-521: one batch of _train_epoch, with the evaluation of every
\* 1000th batch
TrainBatch ==
    /\ pc = "batches" /\ bitx < train_batches
    /\ bitx' = bitx + 1
    /\ IF bitx' % eval_every_n_batch = 0 /\ dev_set
       THEN EvaluateAndSave("batches")
       ELSE UNCHANGED <<pc, max_rouge_l, bleu_rouge, saved, error>>
    /\ UNCHANGED <<epochs, epoch, evaluate, dev_set, train_batches, trainOtherVars>>

\* line 523: the averages over total_num, which is 0 without batches
TrainEpochReturn ==
    /\ pc = "batches" /\ bitx = train_batches
    /\ IF train_batches = 0
       THEN error' = "ZeroDivisionError" /\ pc' = "raised"
       ELSE error' = error /\ pc' = "epoch_end"
    /\ UNCHANGED <<epochs, epoch, evaluate, dev_set, train_batches, bitx,
                   max_rouge_l, bleu_rouge, saved, trainOtherVars>>

\* lines 550-568: the end of an epoch in train
TrainEpochEnd ==
    /\ pc = "epoch_end"
    /\ IF evaluate
       THEN IF dev_set
            THEN /\ EvaluateAndSave("train")
                 /\ epoch' = IF pc' = "raised" THEN epoch ELSE epoch + 1
            ELSE /\ epoch' = epoch + 1
                 /\ pc' = "train"
                 /\ UNCHANGED <<max_rouge_l, bleu_rouge, saved, error>>
       ELSE /\ saved' = Append(saved, epoch)
            /\ epoch' = epoch + 1
            /\ pc' = "train"
            /\ UNCHANGED <<max_rouge_l, bleu_rouge, error>>
    /\ UNCHANGED <<epochs, evaluate, dev_set, train_batches, bitx, trainOtherVars>>

\* line 539: the loop over the epochs is over
TrainReturn ==
    /\ pc = "train" /\ epoch > epochs
    /\ pc' = "trained"
    /\ UNCHANGED <<trainVars, trainOtherVars>>

TrainNext ==
    \/ TrainReturn
    \/ TrainEpochStart
    \/ TrainBatch
    \/ TrainEpochReturn
    \/ TrainEpochEnd

TrainSpec == TrainInit /\ [][TrainNext]_vars

(***************************************************************************)
(* RCModel.find_best_answer (src/rc_model.py).  The probabilities are      *)
(* small integers; the matrix has the padded length of the batch on each   *)
(* side, the passage may be shorter.                                       *)
(***************************************************************************)
MaxPad == 3

ProbPool == {0, 1, 2}

\* lines 50-53: the configuration of the answer-length intervals, the
\* threshold in tenths
RcConfig ==
    [ ans_len_inter_size  |-> 1,
      ans_inter_num       |-> 3,
      ans_cut_range       |-> 1,
      ans_cut_prob_thresh |-> 5 ]

Cells == (0..(MaxPad - 1)) \X (0..(MaxPad - 1))

\* the matrices with at most two cells that are not 0
ProbMatrices ==
    { [ c \in Cells |-> IF c = c1 THEN v1 ELSE IF c = c2 THEN v2 ELSE 0 ] :
        c1 \in Cells, c2 \in Cells, v1 \in ProbPool, v2 \in ProbPool }

\* the distributions over the answer-length intervals, in tenths
AnsInterProbs == { <<8, 1, 1>>, <<4, 3, 3>>, <<1, 1, 8>> }

TokenPool == << <<"a">>, <<"b">>, <<"c">>, <<"d">>, <<"e">> >>

\* np.triu(m, k) and np.tril(m, k)
Triu(m, k) == [ c \in DOMAIN m |-> IF c[2] - c[1] >= k THEN m[c] ELSE 0 ]

Tril(m, k) == [ c \in DOMAIN m |-> IF c[2] - c[1] <= k THEN m[c] ELSE 0 ]

\* np.triu followed by np.tril: the cells of an answer length near len
Band(m, len) ==
    Tril(Triu(m, Max2(0, len - RcConfig.ans_cut_range)),
         len + RcConfig.ans_cut_range)

\* np.argmax of a vector counted from 0: the first place of the maximum
FirstArgMax(v) ==
    CHOOSE k \in DOMAIN v :
        /\ \A j \in DOMAIN v : v[j] <= v[k]
        /\ \A j \in DOMAIN v : j < k => v[j] < v[k]

MaxOf(S) == CHOOSE x \in S : \A y \in S : y <= x

\* np.argmax(np.max(m, axis=1), axis=0)
BestRow(m) ==
    FirstArgMax([ r \in 0..(MaxPad - 1) |->
                    MaxOf({ m[<<r, c>>] : c \in 0..(MaxPad - 1) }) ])

\* np.argmax(np.max(m, axis=0), axis=0)
BestColumn(m) ==
    FirstArgMax([ c \in 0..(MaxPad - 1) |->
                    MaxOf({ m[<<r, c>>] : r \in 0..(MaxPad - 1) }) ])

\* ''.join(sample['article_tokens'][start : end + 1])
AnswerOf(tokens, start, end) ==
    IF start > end \/ start >= Len(tokens) THEN <<>>
    ELSE Join(Slice(tokens, start, end + 1))

FindInit ==
    /\ PreprocessIdle /\ PoolIdle /\ TrainIdle
    /\ pc = "find"
    /\ \E n \in 1..MaxPad, len_a \in {1, 3} :
          sample = [ article_tokens |-> SubSeq(TokenPool, 1, n),
                     answer_tokens  |-> [ k \in 1..len_a |-> <<"a">> ] ]
    /\ prob_matrix \in ProbMatrices
    /\ ans_inter_prob \in AnsInterProbs
    /\ passage_len = 0 /\ matrix = <<>>
    /\ pred_start_origin = 0 /\ pred_end_origin = 0
    /\ pred_start_gt_cut = 0 /\ pred_end_gt_cut = 0
    /\ pred_start_cut = 0 /\ pred_end_cut = 0 /\ best_answer = <<>>
    /\ max_token_len = 0
    /\ row = <<>> /\ input = <<>>
    /\ sentences = <<>> /\ sentences_f = <<>> /\ scores = <<>>
    /\ s_rank = <<>> /\ arg_sorted = <<>> /\ i = 0
    /\ rank = <<>> /\ flag = <<>> /\ cur_len = 0 /\ rank_idx = 0
    /\ star_spans = <<>> /\ end_spans = <<>> /\ inst_scores = <<>>
    /\ q_r_scores = <<>> /\ rl_q_idx = <<>>

findOtherVars == <<otherVars, trainVars>>

\* lines 698-709: passage_len, the upper triangle, the span of the whole
\* triangle
FindOrigin ==
    /\ pc = "find"
    /\ passage_len' = Len(sample.article_tokens)
    /\ prob_matrix' = Triu(prob_matrix, 0)
    /\ pred_start_origin' = BestRow(prob_matrix')
    /\ pred_end_origin' = Min2(BestColumn(prob_matrix'), passage_len' - 1)
    /\ matrix' = prob_matrix'
    /\ pc' = "gt_cut"
    /\ UNCHANGED <<sample, ans_inter_prob, pred_start_gt_cut, pred_end_gt_cut,
                   pred_start_cut, pred_end_cut, best_answer, findOtherVars>>

\* lines 711-717: the span within the band of the length of the answer
FindGtCut ==
    /\ pc = "gt_cut"
    /\ matrix' = IF Len(sample.answer_tokens)
                      < RcConfig.ans_len_inter_size * RcConfig.ans_inter_num
                 THEN Band(prob_matrix, Len(sample.answer_tokens))
                 ELSE prob_matrix
    /\ pred_start_gt_cut' = BestRow(matrix')
    /\ pred_end_gt_cut' = Min2(BestColumn(matrix'), passage_len - 1)
    /\ pc' = "cut"
    /\ UNCHANGED <<sample, prob_matrix, ans_inter_prob, passage_len,
                   pred_start_origin, pred_end_origin,
                   pred_start_cut, pred_end_cut, best_answer, findOtherVars>>

\* lines 702-703 and 719-726: the span within the band of the predicted
\* length of the answer
FindCut ==
    /\ pc = "cut"
    /\ \E pred_ans_inter \in { FirstArgMax([ k \in 0..(Len(ans_inter_prob) - 1)
                                              |-> ans_inter_prob[k + 1] ]) } :
          prob_matrix' =
              IF /\ pred_ans_inter < RcConfig.ans_inter_num - 1
                 /\ ans_inter_prob[pred_ans_inter + 1]
                       >= RcConfig.ans_cut_prob_thresh
              THEN Band(prob_matrix,
                        RcConfig.ans_len_inter_size * (pred_ans_inter + 1))
              ELSE prob_matrix
    /\ pred_start_cut' = BestRow(prob_matrix')
    /\ pred_end_cut' = Min2(BestColumn(prob_matrix'), passage_len - 1)
    /\ pc' = "join"
    /\ UNCHANGED <<sample, ans_inter_prob, passage_len, matrix,
                   pred_start_origin, pred_end_origin, pred_start_gt_cut,
                   pred_end_gt_cut, best_answer, findOtherVars>>

\* lines 728-731
FindReturn ==
    /\ pc = "join"
    /\ best_answer' =
          << AnswerOf(sample.article_tokens, pred_start_origin, pred_end_origin),
             AnswerOf(sample.article_tokens, pred_start_cut, pred_end_cut),
             AnswerOf(sample.article_tokens, pred_start_gt_cut, pred_end_gt_cut) >>
    /\ pc' = "found"
    /\ UNCHANGED <<sample, prob_matrix, ans_inter_prob, passage_len, matrix,
                   pred_start_origin, pred_end_origin, pred_start_gt_cut,
                   pred_end_gt_cut, pred_start_cut, pred_end_cut,
                   findOtherVars>>

FindNext ==
    \/ FindOrigin
    \/ FindGtCut
    \/ FindCut
    \/ FindReturn

FindSpec == FindInit /\ [][FindNext]_vars

(***************************************************************************)
(* Properties of the Sampler.                                              *)
(***************************************************************************)
OverBudget == Len(input.article_tokens) > max_token_len

HasMarkerToken ==
    \E k \in DOMAIN input.article_tokens : input.article_tokens[k] = <<Marker>>

SamplerEnded == pc \in {"sampled", "raised"}

\* the sentences marked in flag, by ascending position
KeptPositions == { j \in DOMAIN flag : flag[j] # 0 }

RECURSIVE ConcatAscending(_, _)
ConcatAscending(lists, S) ==
    IF S = {} THEN <<>>
    ELSE LET j == CHOOSE x \in S : \A y \in S : x <= y
         IN  lists[j] \o ConcatAscending(lists, S \ {j})

\* C1: for an article over the budget that has a marker token, whenever
\* _sample_article returns, the new article_tokens and article_flags are
\* each at most max_token_len long.
C1_LengthBound ==
    (pc = "sampled" /\ OverBudget /\ HasMarkerToken)
        => /\ Len(row.article_tokens) <= max_token_len
           /\ Len(row.article_flags) <= max_token_len

\* the kept sentences together exceed the budget and the result was cut
C1_Witness ==
    /\ pc = "sampled" /\ OverBudget /\ HasMarkerToken
    /\ Len(ConcatAscending(sentences, KeptPositions)) > max_token_len
    /\ Len(row.article_tokens) = max_token_len
    /\ max_token_len > 0

\* C4: _sample_article never raises; every call ends by returning a row.
C4_NeverRaises == pc # "raised"

\* C6: an article of at most max_token_len tokens comes back with the
\* tokens, the flags and every other field of the row unchanged.
C6_WithinBudgetUnchanged ==
    (pc # "sample" /\ ~OverBudget) => (pc = "sampled" /\ row = input)

C6_Witness ==
    /\ pc = "sampled" /\ ~OverBudget
    /\ Len(input.article_tokens) = max_token_len
    /\ HasMarkerToken

\* C7: an article over the budget with no marker at all comes back as its
\* whole token and flag sequence, however long.
C7_NoDelimiterWhole ==
    (SamplerEnded /\ OverBudget /\ ~HasMarkerToken)
        => /\ pc = "sampled"
           /\ row.article_tokens = input.article_tokens
           /\ row.article_flags = input.article_flags

\* C8: when the split of an article over the budget yields no sentence,
\* the row is returned unchanged.
C8_ZeroSentencesUnchanged ==
    (SamplerEnded /\ OverBudget /\ sentences = <<>>)
        => (pc = "sampled" /\ row = input)

\* C9: for an article over the budget with a marker, the result is the first
\* max_token_len tokens of the kept sentences concatenated by ascending
\* sentence position, so the tokens with their flags are a subsequence of
\* the input article.
C9_DocumentOrder ==
    (pc = "sampled" /\ OverBudget /\ HasMarkerToken)
        => /\ row.article_tokens
                = Take(ConcatAscending(sentences, KeptPositions), max_token_len)
           /\ row.article_flags
                = Take(ConcatAscending(sentences_f, KeptPositions), max_token_len)
           /\ Len(row.article_flags) = Len(row.article_tokens)
           /\ \A k \in DOMAIN row.article_flags :
                 /\ row.article_flags[k] \in DOMAIN input.article_tokens
                 /\ row.article_tokens[k]
                       = input.article_tokens[row.article_flags[k]]
                 /\ k > 1 => row.article_flags[k - 1] < row.article_flags[k]

\* a sentence chosen by rank, ranked ahead of a kept sentence that precedes
\* it in the article, is part of the result
C9_Witness ==
    /\ pc = "sampled" /\ OverBudget /\ HasMarkerToken
    /\ \E j \in KeptPositions :
          /\ ~ForceKept(j, Len(sentences))
          /\ RLess(RZero, s_rank[j])
          /\ \E k \in DOMAIN row.article_flags :
                row.article_flags[k] = sentences_f[j][1]

\* C12: for the article p q . w x y z . asked about w x with a budget of 4,
\* the result has at most 4 tokens and holds the sentence w x y z, the one
\* most like the question.
C12_ScenarioRetainsSentence ==
    (pc = "sampled" /\ input \in SamplerScenarioRows /\ max_token_len = 4)
        => /\ Len(row.article_tokens) <= 4
           /\ \E k \in 0..(Len(row.article_tokens) - 4) :
                 SubSeq(row.article_tokens, k + 1, k + 4)
                    = << <<"w">>, <<"x">>, <<"y">>, <<"z">> >>


\* C15: a pass of the selection loop over a sentence that is kept from the
\* start (one of the first two or the last two) changes neither flag nor
\* cur_len; over any other sentence it marks the sentence and adds its
\* length exactly when cur_len < max_token_len and its rank is positive.
C15_GreedyExcludesForceKept ==
    [][ (pc = "select" /\ rank_idx' = rank_idx + 1)
          => IF ForceKept(rank[rank_idx], Len(sentences))
             THEN flag' = flag /\ cur_len' = cur_len
             ELSE IF cur_len < max_token_len
                        /\ RLess(RZero, s_rank[rank[rank_idx]])
             THEN /\ flag' = [flag EXCEPT ![rank[rank_idx]] = 1]
                  /\ cur_len' = cur_len + Len(sentences[rank[rank_idx]])
             ELSE flag' = flag /\ cur_len' = cur_len ]_vars


\* order lists the positions of sc by descending score, and positions of
\* equal score by ascending position
DescendingLowerFirst(order, sc) ==
    \A j, k \in DOMAIN order :
        j < k => \/ RLess(sc[order[k]], sc[order[j]])
                 \/ (sc[order[j]] = sc[order[k]] /\ order[j] < order[k])

\* C16: the ranking of the seeds (arg_sorted, by scores) and the final
\* ranking (rank, by s_rank) list the sentences by descending score, and
\* sentences of equal score by ascending position in the article.
C16_TiesByLowerIndex ==
    /\ pc \in {"spread", "select"} => DescendingLowerFirst(arg_sorted, scores)
    /\ pc = "select" => DescendingLowerFirst(rank, s_rank)


\* position k is a trailing fragment of one token: the last token, not a
\* marker, with a marker or nothing before it
ShortTrailingFragment(k) ==
    /\ k = Len(input.article_tokens)
    /\ input.article_tokens[k] # << Marker >>
    /\ k > 1 => input.article_tokens[k - 1] = << Marker >>

\* C17: after the split every marker token is the last token of a sentence,
\* and the only tokens in no sentence are those of a trailing fragment
\* without a marker that has fewer than 2 tokens.
C17_SplitKeepsMarkedSegments ==
    (pc \in {"split", "spread", "select"} /\ OverBudget)
        => /\ \A k \in DOMAIN input.article_tokens :
                 input.article_tokens[k] = << Marker >>
                    => \E j \in DOMAIN sentences_f :
                          sentences_f[j][Len(sentences_f[j])] = k
           /\ \A k \in DOMAIN input.article_tokens :
                 (\A j \in DOMAIN sentences_f :
                     \A m \in DOMAIN sentences_f[j] : sentences_f[j][m] # k)
                    => ShortTrailingFragment(k)


\* the spreading loop is over
SpreadDone == pc = "select" \/ (pc = "spread" /\ ~(i < TopSentences /\ i < Len(sentences)))

\* the sentences the loop spreads from: those of the first ten of the
\* ranking that are not force-kept and have a positive score
Seeds ==
    { p \in { arg_sorted[k] : k \in 1..Min2(TopSentences, Len(sentences)) } :
        ~ForceKept(p, Len(sentences)) /\ RLess(RZero, scores[p]) }

\* the seeds whose window p - 2 .. p + 4 holds j
SeedsOver(j) == { p \in Seeds : p - 2 <= j /\ j <= p + 4 }

Propagated(j, p) == RScale(<<5, 9, 10, 10, 9, 5, 4>>[j - p + 3], scores[p])

\* C18: after the spreading pass s_rank[j] is the largest multiplier x score
\* over the seeds whose window holds j, and 0 when no seed covers j; no
\* value of s_rank decreases during the pass.
C18_SpreadIsWindowMaximum ==
    /\ [](SpreadDone =>
            \A j \in DOMAIN s_rank :
               IF SeedsOver(j) = {}
               THEN s_rank[j] = RZero
               ELSE /\ \E p \in SeedsOver(j) : s_rank[j] = Propagated(j, p)
                    /\ \A p \in SeedsOver(j) : ~RLess(s_rank[j], Propagated(j, p)))
    /\ [][ (pc = "spread" /\ pc' = "spread")
              => /\ DOMAIN s_rank' = DOMAIN s_rank
                 /\ \A j \in DOMAIN s_rank : ~RLess(s_rank'[j], s_rank[j]) ]_vars

\* the pass is over for twelve sentences: the third has a positive score and
\* is not a seed, two seeds of different reach cover the last sentence and
\* the window of the tenth is cut at the end of the list
C18_Witness ==
    /\ SpreadDone /\ Len(sentences) = 12
    /\ RLess(RZero, scores[3]) /\ 3 \notin Seeds /\ s_rank[1] = RZero
    /\ {9, 10} \subseteq SeedsOver(12) /\ 11 \notin SeedsOver(12)
    /\ s_rank[12] = Propagated(12, 10)


\* C21: throughout the selection loop cur_len is the number of tokens of the
\* sentences marked in flag, each counted once, whatever the number of
\* sentences (2 or more).
C21_CurLenCountsSelected ==
    (pc = "select" /\ Len(sentences) >= 2)
        => cur_len = Len(ConcatAscending(sentences, KeptPositions))


\* C23: a row the Sampler returned is returned as it is when the Sampler is
\* applied to it again with the same budget, also when it has no marker and
\* is longer than the budget.
C23_SamplerIdempotent ==
    pc = "sampled" => SampleArticle(row, max_token_len) = row

\* sentences were dropped and the rest cut in a sentence: the row returned
\* is not the one passed in and is as long as the budget
C23_Witness ==
    /\ pc = "sampled" /\ row # input
    /\ Len(row.article_tokens) = max_token_len
    /\ Cardinality(KeptPositions) < Len(sentences)
    /\ row.article_tokens[max_token_len] # << Marker >>

(***************************************************************************)
(* Properties of the Locator.                                              *)
(***************************************************************************)
Located == pc = "located"

NonSentinel == row.answer_token_start # -1 \/ row.answer_token_end # -1

\* the text of the tokens from start to end (0-based, inclusive)
SpanText(start, end) == Join(SubSeq(input.article_tokens, start + 1, end + 1))

AnswerText == Join(input.answer_tokens)

\* 4 * |intersection| >= max(|set_candidate|, |set_answer|), the ratio
\* being 0 when both sets are empty
RatioAtLeastQuarter(text, answer) ==
    /\ CharSet(text) \cup CharSet(answer) # {}
    /\ \A m \in {Cardinality(CharSet(text)), Cardinality(CharSet(answer))} :
          4 * Cardinality(CharSet(text) \cap CharSet(answer)) >= m

\* the spans (start, length) the Locator is to try
TriedSpans ==
    { st \in (0..Len(input.article_tokens)) \X (1..(Len(input.answer_tokens) + 2)) :
        /\ st[1] <= Len(input.article_tokens) - Len(input.answer_tokens)
        /\ st[2] >= Len(input.answer_tokens) - 2
        /\ st[1] + st[2] <= Len(input.article_tokens) }

NoSpanPasses ==
    \A st \in TriedSpans :
        ~RatioAtLeastQuarter(SpanText(st[1], st[1] + st[2] - 1), AnswerText)

\* C2: a result other than (-1, -1) has 0 <= start <= end < len(article),
\* and the text of its tokens has a character-set ratio of at least 0.25
\* against the answer text.
C2_SpanValid ==
    (Located /\ NonSentinel)
        => /\ 0 <= row.answer_token_start
           /\ row.answer_token_start <= row.answer_token_end
           /\ row.answer_token_end < Len(input.article_tokens)
           /\ RatioAtLeastQuarter(
                  SpanText(row.answer_token_start, row.answer_token_end),
                  AnswerText)

\* a span of several tokens that ends at the last token of the article and
\* differs from the answer
C2_Witness ==
    /\ Located /\ NonSentinel
    /\ row.answer_token_end = Len(input.article_tokens) - 1
    /\ row.answer_token_start < row.answer_token_end
    /\ SpanText(row.answer_token_start, row.answer_token_end) # AnswerText

\* C5: when no span passes the 0.25 prefilter, the Locator ends with
\* answer_token_start = answer_token_end = -1 and the three delta lists
\* empty; nothing is recorded on the way.
C5_SentinelWhenNothingPasses ==
    NoSpanPasses
        => /\ star_spans = <<>> /\ end_spans = <<>> /\ inst_scores = <<>>
           /\ Located
                => /\ row.answer_token_start = -1
                   /\ row.answer_token_end = -1
                   /\ row.delta_token_starts = <<>>
                   /\ row.delta_token_ends = <<>>
                   /\ row.delta_rouges = <<>>

\* spans were tried against a non-empty answer and none passed
C5_Witness ==
    /\ Located /\ NoSpanPasses
    /\ TriedSpans # {}
    /\ input.answer_tokens # <<>>
    /\ row.answer_token_start = -1

ExactCount ==
    Cardinality({ k \in DOMAIN row.delta_rouges : row.delta_rouges[k] = ROne })

Similarity(start, end) == RougeL_add_inst(SpanText(start, end), AnswerText).inst

SpanBefore(s1, e1, s2, e2) == s1 < s2 \/ (s1 = s2 /\ e1 < e2)

\* C10: with fewer than 2 candidates of similarity exactly 1.0, the span
\* returned has the highest similarity to the answer of all recorded
\* candidates, and of those with that similarity it is the one of lowest
\* start, then shortest length; the article of the scenario gives (2, 3).
C10_FirstMaximum ==
    (Located /\ NonSentinel /\ ExactCount < 2)
        => /\ \E k \in DOMAIN row.delta_rouges :
                 /\ row.delta_token_starts[k] = row.answer_token_start
                 /\ row.delta_token_ends[k] = row.answer_token_end
                 /\ row.delta_rouges[k]
                       = Similarity(row.answer_token_start, row.answer_token_end)
           /\ \A j \in DOMAIN row.delta_rouges :
                 LET sj == row.delta_token_starts[j]
                     ej == row.delta_token_ends[j]
                     best == Similarity(row.answer_token_start,
                                        row.answer_token_end)
                 IN  /\ ~RLess(best, Similarity(sj, ej))
                     /\ (Similarity(sj, ej) = best
                           /\ <<sj, ej>> # <<row.answer_token_start,
                                             row.answer_token_end>>)
                          => SpanBefore(row.answer_token_start,
                                        row.answer_token_end, sj, ej)
           /\ input \in ScenarioRows
                 => row.answer_token_start = 2 /\ row.answer_token_end = 3

\* several candidates share the highest similarity and none is exact
C10_Witness ==
    /\ Located /\ NonSentinel /\ ExactCount = 0
    /\ \E j \in DOMAIN row.delta_rouges :
          /\ row.delta_token_starts[j] > row.answer_token_start
          /\ row.delta_rouges[j]
                = Similarity(row.answer_token_start, row.answer_token_end)

\* the recall of the question in the tokens from 7 before start to 3 after
\* end (0-based, inclusive), as far as the article goes
ContextScore(start, end) ==
    RougeL_add_inst(
        Strip(Join(SubSeq(input.article_tokens,
                          Max2(start - 7, 0) + 1,
                          Min2(end + 4, Len(input.article_tokens))))),
        Strip(Join(input.question_tokens))).r

\* the recorded spans of similarity exactly 1.0
ExactSpans ==
    { <<row.delta_token_starts[k], row.delta_token_ends[k]>> :
        k \in { j \in DOMAIN row.delta_rouges : row.delta_rouges[j] = ROne } }

\* C11: with 2 or more candidates of similarity exactly 1.0, the span
\* returned is one of them: the one whose context window scores highest
\* against the question, the first generated of those with that score.
C11_ContextTieBreak ==
    (Located /\ NonSentinel /\ ExactCount >= 2)
        => /\ <<row.answer_token_start, row.answer_token_end>> \in ExactSpans
           /\ Similarity(row.answer_token_start, row.answer_token_end) = ROne
           /\ \A sp \in ExactSpans :
                 LET best == ContextScore(row.answer_token_start,
                                          row.answer_token_end)
                 IN  /\ ~RLess(best, ContextScore(sp[1], sp[2]))
                     /\ (ContextScore(sp[1], sp[2]) = best
                           /\ sp # <<row.answer_token_start,
                                     row.answer_token_end>>)
                          => SpanBefore(row.answer_token_start,
                                        row.answer_token_end, sp[1], sp[2])

\* the exact candidate returned is not the first one, and its window is
\* cut to the 7 tokens before it
C11_Witness ==
    /\ Located /\ NonSentinel /\ ExactCount >= 2
    /\ row.answer_token_start >= 8
    /\ \E sp \in ExactSpans :
          /\ sp[1] < row.answer_token_start
          /\ RLess(ContextScore(sp[1], sp[2]),
                   ContextScore(row.answer_token_start, row.answer_token_end))

\* the tried spans that pass the prefilter, as (start, end)
PassingSpans ==
    { <<st[1], st[1] + st[2] - 1>> :
        st \in { x \in TriedSpans :
                   RatioAtLeastQuarter(SpanText(x[1], x[1] + x[2] - 1),
                                       AnswerText) } }

\* C19: in a result other than the sentinel the three delta lists are equally
\* long and list, by ascending start and then ascending length, exactly the
\* tried spans whose character-set ratio against the answer is at least
\* 0.25, each with its similarity to the answer.
C19_DeltaListsArePassingSpans ==
    (Located /\ NonSentinel)
        => /\ Len(row.delta_token_starts) = Len(row.delta_token_ends)
           /\ Len(row.delta_token_ends) = Len(row.delta_rouges)
           /\ \A k \in DOMAIN row.delta_rouges :
                 /\ <<row.delta_token_starts[k], row.delta_token_ends[k]>>
                       \in PassingSpans
                 /\ row.delta_rouges[k]
                       = Similarity(row.delta_token_starts[k],
                                    row.delta_token_ends[k])
                 /\ k > 1 => SpanBefore(row.delta_token_starts[k - 1],
                                        row.delta_token_ends[k - 1],
                                        row.delta_token_starts[k],
                                        row.delta_token_ends[k])
           /\ \A sp \in PassingSpans :
                 \E k \in DOMAIN row.delta_rouges :
                    /\ row.delta_token_starts[k] = sp[1]
                    /\ row.delta_token_ends[k] = sp[2]

\* some tried span fails the prefilter, two spans of one start pass it, and
\* a span that ends at the last token is listed
C19_Witness ==
    /\ Located /\ NonSentinel
    /\ \E st \in TriedSpans : <<st[1], st[1] + st[2] - 1>> \notin PassingSpans
    /\ \E k \in DOMAIN row.delta_rouges :
          /\ k > 1
          /\ row.delta_token_starts[k] = row.delta_token_starts[k - 1]
          /\ row.delta_token_ends[k] = Len(input.article_tokens) - 1
          /\ row.delta_rouges[k] # row.delta_rouges[k - 1]

\* the places of the delta lists that hold the span returned
SelectedPlaces ==
    { k \in DOMAIN row.delta_rouges :
        /\ row.delta_token_starts[k] = row.answer_token_start
        /\ row.delta_token_ends[k] = row.answer_token_end }

\* C22: in a result other than the sentinel the span returned is at exactly
\* one place of the delta lists, and delta_rouges has its maximum there,
\* with fewer than 2 exact candidates as with 2 or more.
C22_SelectedIsListedMaximum ==
    (Located /\ NonSentinel)
        => /\ Cardinality(SelectedPlaces) = 1
           /\ \A k \in SelectedPlaces :
                 \A j \in DOMAIN row.delta_rouges :
                    ~RLess(row.delta_rouges[k], row.delta_rouges[j])

\* two exact candidates or more and one that is not exact are listed, and
\* the span returned is neither the first nor the last of the list
C22_Witness ==
    /\ Located /\ NonSentinel /\ ExactCount >= 2
    /\ \E j \in DOMAIN row.delta_rouges : RLess(row.delta_rouges[j], ROne)
    /\ \E k \in SelectedPlaces : 1 < k /\ k < Len(row.delta_rouges)


(***************************************************************************)
(* The steps of the two transforms agree with the transforms as functions. *)
(***************************************************************************)
SamplerStepsAgree ==
    /\ pc = "sampled" => row = SampleArticle(input, max_token_len)
    /\ pc = "raised" => Raised(SampleArticle(input, max_token_len))

LocatorStepsAgree == pc = "located" => row = FindGoldenSpan(input)

(***************************************************************************)
(* Properties of the parallel_* functions.                                 *)
(***************************************************************************)
\* C3: for any number of workers and of rows, and any order in which the
\* workers finish, the result of a parallel_* call has one row per row of
\* the table, in the order of the table, each the transform of its row: the
\* result of the call with a single partition.
C3_OrderPreserved ==
    pc = "returned"
        => /\ Len(res) = Len(sample_df)
           /\ \A j \in DOMAIN res :
                 res[j] = Transform(stage, cut_word_method, max_token_len,
                                    sample_df[j])
           /\ res = ApplyRows(stage, cut_word_method, max_token_len, sample_df)

\* more workers than rows, the last partition that holds a row finishing
\* first, and a row changed by the transform
C3_Witness ==
    /\ pc = "returned"
    /\ n_cpu > Len(sample_df)
    /\ Len(sample_df) >= 2
    /\ finish_order[1] = Len(sample_df)
    /\ \E j \in DOMAIN res : stage = "sample" /\ res[j] # sample_df[j]

(***************************************************************************)
(* Properties of preprocess_dataset.                                       *)
(***************************************************************************)
\* the transform raised on a row of a partition of the call under way
\* whose worker is done
PartitionRaised(k) ==
    /\ pc \in {"map", "concat", "returned", "failed"}
    /\ task[k] = "done"
    /\ \E j \in DOMAIN split_dfs[k] :
          Raised(Transform(stage, cut_word_method, max_token_len,
                           split_dfs[k][j]))

SomePartitionRaised == \E k \in DOMAIN task : PartitionRaised(k)

\* C13: once the transform has raised in a partition, the parallel_* call
\* returns nothing (no result is merged or handed to the caller), the
\* partition is not run again, the call fails, and preprocess_dataset
\* begins no later stage: the failure ends the run.
C13_WorkerFailureIsFatal ==
    /\ [](SomePartitionRaised => pc \in {"map", "failed"})
    /\ [][ (SomePartitionRaised
              => (/\ step' \in {step, "failed"}
                  /\ res' = res /\ pool_results' = pool_results
                  /\ sample_df' = sample_df /\ adf' = adf /\ qadf' = qadf
                  /\ trace' = trace /\ stage' = stage
                  /\ split_dfs' = split_dfs
                  /\ \A k \in DOMAIN task :
                        PartitionRaised(k)
                           => (task'[k] = "done"
                                 /\ task_result'[k] = task_result[k])
                  /\ (\A k \in DOMAIN task : task[k] = "done")
                        => pc' = "failed"))
           /\ (step = "failed" => UNCHANGED vars) ]_vars

\* the run has failed in the Sampler stage after one of two partitions
\* raised and the other one sent its rows back
C13_Witness ==
    /\ step = "failed" /\ pc = "failed" /\ stage = "sample"
    /\ SomePartitionRaised
    /\ \E k \in DOMAIN task_result :
          task_result[k].status = "ok" /\ task_result[k].rows # <<>>
    /\ res # <<>>
    /\ trace[Len(trace)] = "sample"

\* the stages in the order of lines 468-491
StageOrder == << "normalize", "segment", "clean_token", "sample", "locate" >>

\* a parallel_* call of the run is under way or has just returned
InCall == pc \in {"call", "map", "concat", "returned"}

\* the budget of line 488 or of line 491
RunBudget ==
    IF labeled THEN cfg.article_sample_len ELSE cfg.article_sample_len_test

\* the rows of the cleaned tables, merged and sampled: what
\* parallel_sample_article returns
SampledTable ==
    [ k \in 1..Len(Merge(adf, qadf)) |->
        SampleArticle(Merge(adf, qadf)[k], RunBudget) ]

\* C20: the stages of preprocess_dataset begin in the order normalize,
\* segment, clean tokens, sample, locate, and one begins only when no
\* partition of the call before it is unfinished; the Locator runs exactly
\* when the data has answers, on the table the Sampler returned, so that
\* the span of a row indexes its truncated article.
C20_StagesInOrder ==
    /\ [](/\ Len(trace) <= Len(StageOrder)
          /\ trace = SubSeq(StageOrder, 1, Len(trace))
          /\ (stage = "span" \/ Len(trace) = 5) => labeled
          /\ step = "done" => Len(trace) = IF labeled THEN 5 ELSE 4
          /\ (step = "span" /\ InCall) => sample_df = SampledTable
          /\ step = "done"
                => /\ Len(sample_df) = Len(SampledTable)
                   /\ \A k \in DOMAIN sample_df :
                         sample_df[k] = IF labeled
                                        THEN FindGoldenSpan(SampledTable[k])
                                        ELSE SampledTable[k])
    /\ [][ trace' # trace
             => /\ pc \in {"idle", "returned"}
                /\ \A k \in DOMAIN task : task[k] = "done"
                /\ pc = "returned" => Len(res) = Len(sample_df) ]_vars

\* a run with answers is over; the Sampler cut an article, and the span
\* found in it reads another text in the article as it was before
C20_Witness ==
    /\ step = "done" /\ labeled /\ trace = StageOrder
    /\ \E k \in DOMAIN sample_df :
          LET r    == sample_df[k]
              orig == adf[r.article_id].article_tokens
          IN  /\ Len(r.article_tokens) < Len(orig)
              /\ r.answer_token_start >= 0
              /\ SubSeq(orig, r.answer_token_start + 1, r.answer_token_end + 1)
                    # SubSeq(r.article_tokens, r.answer_token_start + 1,
                             r.answer_token_end + 1)

(***************************************************************************)
(* Properties of clean_token followed by _sample_article.                  *)
(***************************************************************************)
\* the tokens and flags of r are equally many, and each token is the token
\* of the raw row at the position its flag names, stripped
PairedWithRaw(r) ==
    /\ Len(r.article_tokens) = Len(r.article_flags)
    /\ \A k \in DOMAIN r.article_flags :
          /\ r.article_flags[k] \in DOMAIN raw.article_tokens
          /\ r.article_tokens[k] = Strip(raw.article_tokens[r.article_flags[k]])

\* C14: tokens and flags stay aligned: after clean_token, and after
\* _sample_article when it returns, article_tokens and article_flags are
\* equally long and every token left has the flag it came with.
C14_TokensFlagsAligned ==
    /\ pc # "clean" => PairedWithRaw(input)
    /\ pc = "sampled" => PairedWithRaw(row)

\* clean_token dropped a blank token before a token that is kept, and the
\* Sampler cut the article
C14_Witness ==
    /\ pc = "sampled"
    /\ Len(row.article_tokens) < Len(input.article_tokens)
    /\ Len(input.article_tokens) < Len(raw.article_tokens)
    /\ \E k \in DOMAIN row.article_flags :
          /\ row.article_flags[k] > k
          /\ row.article_tokens[k] # raw.article_tokens[row.article_flags[k]]

(***************************************************************************)
(* Properties of RCModel.train.                                            *)
(***************************************************************************)
\* the score train reads from the result of evaluate()
DevRougeL(result) ==
    IF "Rouge-L" \in DOMAIN result THEN result["Rouge-L"] ELSE -1

\* C24: with evaluate = True, a dev set and batches to train on, no epoch
\* ends in an error; an epoch ends with an evaluation after which the model
\* is saved exactly when the score is above the best one so far, which then
\* becomes the best one; max_rouge_l never decreases.
C24_TrainSavesOnImprovement ==
    /\ []((evaluate /\ dev_set /\ train_batches > 0) => error = "none")
    /\ [][ (evaluate /\ dev_set)
             => /\ max_rouge_l' >= max_rouge_l
                /\ epoch' = epoch + 1
                     => /\ DOMAIN bleu_rouge' = EvalKeys
                        /\ max_rouge_l' = Max2(DevRougeL(bleu_rouge'), max_rouge_l)
                        /\ saved' = IF DevRougeL(bleu_rouge') > max_rouge_l
                                    THEN Append(saved, 0) ELSE saved ]_vars

(***************************************************************************)
(* Properties of RCModel.find_best_answer.                                 *)
(***************************************************************************)
\* the cells on or above the diagonal
UpperCells == { c \in Cells : c[1] <= c[2] }

\* C25: once computed (matrix is then the upper triangle), the span of the
\* whole triangle has start <= end < passage_len and is a cell whose
\* probability is the largest of all cells with start <= end, also with
\* several largest cells and with columns past the end of the passage.
C25_OriginSpanIsBestCell ==
    pc = "gt_cut"
        => /\ pred_start_origin <= pred_end_origin
           /\ pred_end_origin < passage_len
           /\ \A c \in UpperCells :
                 matrix[c] <= matrix[<<pred_start_origin, pred_end_origin>>]


====
